---- MODULE Spec2Model ----
(***************************************************************************)
(* A model of package calltimer (src/timer.go, lines 1-352): the timer     *)
(* registry (New, MustNew), the accumulation of samples (LogDuration,      *)
(* LogSince), the report renderer (ReportAll, Report) and the two global   *)
(* settings Active and OutputFormat.                                       *)
(*                                                                         *)
(* Goroutines are the members of Threads.  A goroutine is idle, or it is   *)
(* inside one call of the package; pc gives its position in that call.     *)
(* One action is one step of a call between two points at which another    *)
(* goroutine can observe or change shared memory: a lock or unlock, a load *)
(* or a store of a shared field.  A report makes one load per step: each   *)
(* read of t.Children, t.TotalElapsed, t.CalledTimes and OutputFormat in   *)
(* hasActivity, calculateLengths and the rendering functions is a step of  *)
(* its own; what a call writes to its own io.Writer goes with the load     *)
(* before it.                                                              *)
(* Locks are sync.Mutex values: mu for the registry, tmu[t] for timer t.   *)
(*                                                                         *)
(* Timers live in heap, a sequence indexed by the timer's address 1, 2,    *)
(* ...; NIL (0) is the nil *Timer.  Strings are sequences of their bytes,  *)
(* each a string, so that len() is Len().  Durations are integers          *)
(* (nanoseconds).                                                          *)
(***************************************************************************)
EXTENDS Integers, Sequences, FiniteSets, TLC

VARIABLES
    Active,         \* var Active (timer.go:61)
    OutputFormat,   \* var OutputFormat (timer.go:54)
    timers,         \* var timers: map name -> *Timer (timer.go:51)
    roots,          \* var roots: []*Timer (timer.go:52)
    mu,             \* var mu: the goroutine holding the registry lock, or 0 (timer.go:53)
    heap,           \* the allocated Timer structs (timer.go:25-32), by address
    tmu,            \* Timer.mu of each allocated timer: its holder, or 0 (timer.go:31)
    pc,             \* per goroutine: position in the current call
    arg,            \* per goroutine: the current call and its arguments
    loc,            \* per goroutine: the locals of the current call
    out,            \* per goroutine: what the current call wrote to its io.Writer
    ret,            \* per goroutine: the values the current call returns
    handles,        \* history: the values New/MustNew have returned without error
    calls           \* history: per timer, the LogDuration calls that have returned

vars == <<Active, OutputFormat, timers, roots, mu, heap, tmu,
          pc, arg, loc, out, ret, handles, calls>>

-----------------------------------------------------------------------------
(* Bounds of the model *)

\* The goroutines.
Threads == {1, 2}

\* New and MustNew are not called once this many timers exist, in the
\* specifications Spec, SpecCreate, SpecLog, SpecRace and SpecSeq.
RegTimers == 2

CreateTimers == 3

LogTimers == 1

RaceTimers == 2

SeqTimers == 3

\* No more than this many LogDuration and LogSince calls are made on one
\* timer, in the specifications SpecLog, SpecRace and SpecSeq.
LogCalls == 2

RaceCalls == 1

SeqCalls == 1

\* Timers and calls per timer in SpecOff
OffTimers == 1

OffCalls == 2

\* Timers and calls per timer in SpecLock
LockTimers == 2

LockCalls == 1

\* Timers and calls per timer in SpecNeg
NegTimers == 2

NegCalls == 2

\* Timers and calls per timer in SpecFmt
FmtTimers == 2

FmtCalls == 1

\* Timers and calls per timer in SpecPos
PosTimers == 2

PosCalls == 2

\* The timer names callers pass: "", "a", "bb", ... (one name per length).
NameChars == <<"a", "b", "c", "d", "e">>

NameOf(k) == [i \in 1..k |-> NameChars[k]]

Names(n) == {NameOf(k) : k \in 0..n}

\* The durations callers pass to LogDuration, and time.Since returns.
Durations == {-1, 0, 1, 2}

\* The durations of the sequential runs: none, one nanosecond, and one and a
\* half microseconds, whose text "1.5" + micro sign + "s" has 6 bytes.
SeqDurations == {0, 1, 1500}

-----------------------------------------------------------------------------
(* Values *)

NIL == 0

Table == "Table"

PlainText == "PlainText"

CSV == "CSV"

Formats == {Table, PlainText, CSV}

leaderLabel == <<"T","i","m","e","r"," ","n","a","m","e">>

totalLabel == <<"T","o","t","a","l"," ","t","i","m","e">>

callsLabel == <<"N","r","."," ","o","f"," ","c","a","l","l","s">>

avgLabel == <<"A","v","e","r","a","g","e"," ","t","i","m","e","/","c","a","l","l">>

NoError == "nil"

NameRequired == "can't create a timer without a name"

DuplicateName == "timer is already defined"

MemoryFault == "unexpected fault address"

NilDereference == "invalid memory address or nil pointer dereference"

max(a, b) == IF a >= b THEN a ELSE b

\* Go's integer division truncates toward zero.
GoDiv(a, b) == IF a >= 0 THEN a \div b ELSE -((-a) \div b)

Digits == <<"0","1","2","3","4","5","6","7","8","9">>

\* fmt.Sprintf("%v", n) of a non-negative int.
RECURSIVE Itoa(_)
Itoa(n) == IF n < 10 THEN <<Digits[n + 1]>>
           ELSE Itoa(n \div 10) \o <<Digits[(n % 10) + 1]>>

\* The micro sign U+00B5 in UTF-8: two bytes, 0xC2 0xB5.
MicroSign == <<"0xC2", "0xB5">>

\* time.fmtFrac: the fraction of v / 10^prec, its digits taken from the last
\* one on, without trailing zeros, and without the decimal point when the
\* fraction is zero; v is what is left of the value, v / 10^prec.
RECURSIVE fmtFracLoop(_, _, _, _)
fmtFracLoop(v, prec, print, buf) ==
    IF prec = 0
      THEN [buf |-> IF print THEN <<".">> \o buf ELSE buf, v |-> v]
      ELSE LET digit == v % 10
               p == print \/ digit # 0
           IN fmtFracLoop(v \div 10, prec - 1, p,
                          IF p THEN <<Digits[digit + 1]>> \o buf ELSE buf)

fmtFrac(v, prec) == fmtFracLoop(v, prec, FALSE, <<>>)

\* fmt.Sprintf("%v", d) of a time.Duration, which is d.String(): "0s"; below
\* one second the value in ns, in microseconds or in ms, with a fraction of
\* up to 0, 3 or 6 digits; from one second on hours, minutes and seconds with
\* a fraction of up to 9 digits, the hours and minutes only when not zero; a
\* "-" before a negative duration.
DurationString(d) ==
    LET u == IF d < 0 THEN -d ELSE d
        sign == IF d < 0 THEN <<"-">> ELSE <<>>
        below(prec, unit) ==
            LET f == fmtFrac(u, prec) IN Itoa(f.v) \o f.buf \o unit
        above ==
            LET f == fmtFrac(u, 9)
                minutes == f.v \div 60
                hours == minutes \div 60
            IN (IF hours > 0 THEN Itoa(hours) \o <<"h">> ELSE <<>>)
               \o (IF minutes > 0 THEN Itoa(minutes % 60) \o <<"m">> ELSE <<>>)
               \o Itoa(f.v % 60) \o f.buf \o <<"s">>
    IN IF u = 0 THEN <<"0", "s">>
       ELSE IF u < 1000 THEN sign \o below(0, <<"n", "s">>)
       ELSE IF u < 1000000 THEN sign \o below(3, MicroSign \o <<"s">>)
       ELSE IF u < 1000000000 THEN sign \o below(6, <<"m", "s">>)
       ELSE sign \o above

\* &Timer{Name: name, Children: []*Timer{}, Parent: parent}
NewTimer(name, parent) ==
    [Name |-> name, TotalElapsed |-> 0, CalledTimes |-> 0,
     Parent |-> parent, Children |-> <<>>]

\* &reportLen{}
ZeroLen == [leaderLen |-> 0, totalLen |-> 0, callsLen |-> 0, avgLen |-> 0]

\* A call and its arguments; fresh records, for a call of New or MustNew,
\* that timers did not hold the name when the call was made.
NoArg == [op |-> "none", name |-> <<>>, parent |-> NIL, t |-> NIL, d |-> 0,
          fresh |-> FALSE]

\* A report has read nothing of a timer yet.
NoRead == [total |-> 0, calls |-> 0, hasAvg |-> FALSE, avg |-> 0]

\* The local variables of a call: stack is the work list of a report, cont
\* the label at which the call goes on when the list is empty, res what
\* hasActivity returned, rd and tmp what was read of the timer of the row in
\* progress; seen records the roots that the loop over calculateLengths in
\* ReportAll found with activity.
NoLoc == [err |-> NoError, tmp |-> 0, rLen |-> ZeroLen, stack |-> <<>>, i |-> 0,
          cont |-> "none", res |-> FALSE, rd |-> NoRead, seen |-> {}]

NoRet == [t |-> NIL, err |-> NoError, en |-> TRUE]

NoCalls == [n |-> 0, sum |-> 0, en |-> 0, ensum |-> 0]

\* A panic ends the process: no goroutine takes another step.
Panicked == \E th \in Threads : pc[th] = "panic"

Running(th) == ~Panicked /\ th \in Threads

\* sync.Mutex.Lock returns only when no goroutine holds the mutex.
CanLock(holder) == holder = 0

-----------------------------------------------------------------------------
(* The initial state: the package's variables as declared, no timer yet *)

Init ==
    /\ Active = TRUE
    /\ OutputFormat = Table
    /\ timers = <<>>
    /\ roots = <<>>
    /\ mu = 0
    /\ heap = <<>>
    /\ tmu = <<>>
    /\ pc = [th \in Threads |-> "idle"]
    /\ arg = [th \in Threads |-> NoArg]
    /\ loc = [th \in Threads |-> NoLoc]
    /\ out = [th \in Threads |-> <<>>]
    /\ ret = [th \in Threads |-> NoRet]
    /\ handles = {}
    /\ calls = <<>>

-----------------------------------------------------------------------------
(* The application sets the two global settings *)

\* calltimer.Active = b
SetActive ==
    /\ ~Panicked
    /\ Active' = ~Active
    /\ UNCHANGED <<OutputFormat, timers, roots, mu, heap, tmu,
                   pc, arg, loc, out, ret, handles, calls>>

\* calltimer.OutputFormat = f
SetOutputFormat ==
    /\ ~Panicked
    /\ \E f \in Formats \ {OutputFormat} : OutputFormat' = f
    /\ UNCHANGED <<Active, timers, roots, mu, heap, tmu,
                   pc, arg, loc, out, ret, handles, calls>>

-----------------------------------------------------------------------------
(* Calls begin and return *)

Goto(th, label) == pc' = [pc EXCEPT ![th] = label]

\* The call returns (t, err); en records whether it found Active set.
Return(th, t, err, en) ==
    /\ pc' = [pc EXCEPT ![th] = "ret"]
    /\ ret' = [ret EXCEPT ![th] = [t |-> t, err |-> err, en |-> en]]

\* The caller takes the returned values; the goroutine is idle again.
Returned(th) ==
    /\ Running(th)
    /\ pc[th] = "ret"
    /\ pc' = [pc EXCEPT ![th] = "idle"]
    /\ arg' = [arg EXCEPT ![th] = NoArg]
    /\ loc' = [loc EXCEPT ![th] = NoLoc]
    /\ out' = [out EXCEPT ![th] = <<>>]
    /\ ret' = [ret EXCEPT ![th] = NoRet]
    /\ UNCHANGED <<Active, OutputFormat, timers, roots, mu, heap, tmu,
                   handles, calls>>

\* The parents a caller can pass: nil, or a timer an earlier call returned.
Parents == {NIL} \cup handles

\* A goroutine calls New(name, parent) or MustNew(name, parent).
BeginNew(th, op, maxTimers) ==
    /\ Running(th)
    /\ pc[th] = "idle"
    /\ Len(heap) < maxTimers
    /\ \E name \in Names(maxTimers), parent \in Parents :
         arg' = [arg EXCEPT ![th] = [NoArg EXCEPT !.op = op, !.name = name,
                                       !.parent = parent,
                                       !.fresh = name \notin DOMAIN timers]]
    /\ Goto(th, IF op = "MustNew" THEN "mustnew_active" ELSE "new_active")
    /\ UNCHANGED <<Active, OutputFormat, timers, roots, mu, heap, tmu,
                   loc, out, ret, handles, calls>>

-----------------------------------------------------------------------------
(* New and MustNew (timer.go:66-110) *)

\* MustNew: if !Active { return nil }
MustNewActive(th) ==
    /\ Running(th)
    /\ pc[th] = "mustnew_active"
    /\ IF Active
         THEN Goto(th, "new_active") /\ UNCHANGED <<ret, handles>>
         ELSE Return(th, NIL, NoError, FALSE) /\ handles' = handles \cup {NIL}
    /\ UNCHANGED <<Active, OutputFormat, timers, roots, mu, heap, tmu,
                   arg, loc, out, calls>>

\* New registering the timer before it checks Active.
NewActive_RegistersFirst(th) ==
    /\ Running(th)
    /\ pc[th] = "new_active"
    /\ IF Active
         THEN /\ Goto(th, "new_lock")
              /\ UNCHANGED <<timers, roots, heap, tmu, calls, ret, handles>>
         ELSE /\ Return(th, NIL, NoError, FALSE)
              /\ handles' = handles \cup {NIL}
              /\ IF arg[th].name \in DOMAIN timers
                   THEN UNCHANGED <<timers, roots, heap, tmu, calls>>
                   ELSE /\ heap' = Append(heap, NewTimer(arg[th].name, NIL))
                        /\ tmu' = Append(tmu, 0)
                        /\ calls' = Append(calls, NoCalls)
                        /\ timers' = [n \in DOMAIN timers \cup {arg[th].name} |->
                                        IF n = arg[th].name THEN Len(heap) + 1
                                        ELSE timers[n]]
                        /\ roots' = Append(roots, Len(heap) + 1)
    /\ UNCHANGED <<Active, OutputFormat, mu, arg, loc, out>>

\* New without the check of Active.
NewActive_NoCheck(th) ==
    /\ Running(th)
    /\ pc[th] = "new_active"
    /\ Goto(th, "new_lock")
    /\ UNCHANGED <<Active, OutputFormat, timers, roots, mu, heap, tmu,
                   arg, loc, out, ret, handles, calls>>

\* New: if !Active { return nil, nil }
NewActive(th) ==
    /\ Running(th)
    /\ pc[th] = "new_active"
    /\ IF Active
         THEN Goto(th, "new_lock") /\ UNCHANGED <<ret, handles>>
         ELSE Return(th, NIL, NoError, FALSE) /\ handles' = handles \cup {NIL}
    /\ UNCHANGED <<Active, OutputFormat, timers, roots, mu, heap, tmu,
                   arg, loc, out, calls>>

\* New without the wait for the registry lock.
NewLock_NoExclusion(th) ==
    /\ Running(th)
    /\ pc[th] = "new_lock"
    /\ mu' = th
    /\ Goto(th, "new_lookup")
    /\ UNCHANGED <<Active, OutputFormat, timers, roots, heap, tmu,
                   arg, loc, out, ret, handles, calls>>

\* New: mu.Lock()
NewLock(th) ==
    /\ Running(th)
    /\ pc[th] = "new_lock"
    /\ CanLock(mu)
    /\ mu' = th
    /\ Goto(th, "new_lookup")
    /\ UNCHANGED <<Active, OutputFormat, timers, roots, heap, tmu,
                   arg, loc, out, ret, handles, calls>>

\* New without the check for a name that is registered already.
NameError_NoDuplicateCheck(name, ok) ==
    IF name = <<>> THEN NameRequired ELSE NoError

\* New without the check for the empty name.
NameError_NoEmptyCheck(name, ok) == IF ok THEN DuplicateName ELSE NoError

\* The error New returns for a name, given whether timers holds the name.
NameError(name, ok) ==
    IF name = <<>> THEN NameRequired
    ELSE IF ok THEN DuplicateName
    ELSE NoError

\* New: _, ok := timers[name]; the two checks of the name
NewLookup(th) ==
    /\ Running(th)
    /\ pc[th] = "new_lookup"
    /\ LET err == NameError(arg[th].name, arg[th].name \in DOMAIN timers)
       IN /\ loc' = [loc EXCEPT ![th].err = err]
          /\ Goto(th, IF err = NoError THEN "new_link" ELSE "new_unlock")
    /\ UNCHANGED <<Active, OutputFormat, timers, roots, mu, heap, tmu,
                   arg, out, ret, handles, calls>>

\* New putting every new timer in roots, a child too.
LinkRoots_Always(r, t, parent) == Append(r, t)

\* New putting a new root first in roots.
LinkRoots_Prepend(r, t, parent) == IF parent = NIL THEN <<t>> \o r ELSE r

\* roots after New links timer t under parent.
LinkRoots(r, t, parent) == IF parent = NIL THEN Append(r, t) ELSE r

\* New putting a new child first in its parent's Children.
LinkHeap_ChildFirst(h, t, name, parent) ==
    LET h1 == Append(h, NewTimer(name, parent))
    IN IF parent = NIL THEN h1
       ELSE [h1 EXCEPT ![parent].Children = <<t>> \o @]

\* heap after New allocates timer t and links it under parent.
LinkHeap(h, t, name, parent) ==
    LET h1 == Append(h, NewTimer(name, parent))
    IN IF parent = NIL THEN h1
       ELSE [h1 EXCEPT ![parent].Children = Append(@, t)]

\* New: t := &Timer{...}; timers[name] = t; append to roots or to
\* parent.Children
NewLink(th) ==
    /\ Running(th)
    /\ pc[th] = "new_link"
    /\ LET t == Len(heap) + 1
           name == arg[th].name
           parent == arg[th].parent
       IN /\ heap' = LinkHeap(heap, t, name, parent)
          /\ tmu' = Append(tmu, 0)
          /\ calls' = Append(calls, NoCalls)
          /\ timers' = [n \in DOMAIN timers \cup {name} |->
                          IF n = name THEN t ELSE timers[n]]
          /\ roots' = LinkRoots(roots, t, parent)
          /\ loc' = [loc EXCEPT ![th].tmp = t]
    /\ Goto(th, "new_unlock")
    /\ UNCHANGED <<Active, OutputFormat, mu, arg, out, ret, handles>>

\* New returning without the deferred mu.Unlock().
NewUnlock_KeepsLock(th) ==
    /\ Running(th)
    /\ pc[th] = "new_unlock"
    /\ Return(th, loc[th].tmp, loc[th].err, TRUE)
    /\ handles' = IF loc[th].err = NoError
                    THEN handles \cup {loc[th].tmp} ELSE handles
    /\ UNCHANGED <<Active, OutputFormat, timers, roots, mu, heap, tmu,
                   arg, loc, out, calls>>

\* New: the deferred mu.Unlock(), and the return to the caller or to MustNew
NewUnlock(th) ==
    /\ Running(th)
    /\ pc[th] = "new_unlock"
    /\ mu' = 0
    /\ IF arg[th].op = "MustNew"
         THEN Goto(th, "mustnew_check") /\ UNCHANGED <<ret, handles>>
         ELSE /\ Return(th, loc[th].tmp, loc[th].err, TRUE)
              /\ handles' = IF loc[th].err = NoError
                              THEN handles \cup {loc[th].tmp} ELSE handles
    /\ UNCHANGED <<Active, OutputFormat, timers, roots, heap, tmu,
                   arg, loc, out, calls>>

\* MustNew returning nil instead of panicking.
MustNewCheck_NoPanic(th) ==
    /\ Running(th)
    /\ pc[th] = "mustnew_check"
    /\ IF loc[th].err # NoError
         THEN Return(th, NIL, NoError, TRUE) /\ UNCHANGED handles
         ELSE /\ Return(th, loc[th].tmp, NoError, TRUE)
              /\ handles' = handles \cup {loc[th].tmp}
    /\ UNCHANGED <<Active, OutputFormat, timers, roots, mu, heap, tmu,
                   arg, loc, out, calls>>

\* MustNew: if err != nil { panic(...) }; return t
MustNewCheck(th) ==
    /\ Running(th)
    /\ pc[th] = "mustnew_check"
    /\ IF loc[th].err # NoError
         THEN /\ Goto(th, "panic")
              /\ ret' = [ret EXCEPT ![th] = [t |-> NIL, err |-> loc[th].err,
                                             en |-> TRUE]]
              /\ UNCHANGED handles
         ELSE /\ Return(th, loc[th].tmp, NoError, TRUE)
              /\ handles' = handles \cup {loc[th].tmp}
    /\ UNCHANGED <<Active, OutputFormat, timers, roots, mu, heap, tmu,
                   arg, loc, out, calls>>

NewSteps(th) ==
    \/ NewActive(th)
    \/ NewLock(th)
    \/ NewLookup(th)
    \/ NewLink(th)
    \/ NewUnlock(th)

MustNewSteps(th) ==
    \/ MustNewActive(th)
    \/ MustNewCheck(th)

-----------------------------------------------------------------------------
(* LogDuration and LogSince (timer.go:115-156) *)

LogOps == {"LogDuration", "LogSince"}

\* The LogDuration and LogSince calls on timer t that have not returned.
InFlight(t) == Cardinality({th \in Threads : arg[th].op \in LogOps /\ arg[th].t = t})

\* A goroutine calls t.LogDuration(d) on a handle that New or MustNew returned.
BeginLogDuration(th, maxCalls, durs) ==
    /\ Running(th)
    /\ pc[th] = "idle"
    /\ \E t \in handles, d \in durs :
         /\ t # NIL => calls[t].n + InFlight(t) < maxCalls
         /\ arg' = [arg EXCEPT ![th] = [NoArg EXCEPT !.op = "LogDuration",
                                                  !.t = t, !.d = d]]
    /\ Goto(th, "ld_active")
    /\ UNCHANGED <<Active, OutputFormat, timers, roots, mu, heap, tmu,
                   loc, out, ret, handles, calls>>

\* A goroutine calls t.LogSince(tstart) on a handle that New or MustNew returned.
BeginLogSince(th, maxCalls) ==
    /\ Running(th)
    /\ pc[th] = "idle"
    /\ \E t \in handles :
         /\ t # NIL => calls[t].n + InFlight(t) < maxCalls
         /\ arg' = [arg EXCEPT ![th] = [NoArg EXCEPT !.op = "LogSince", !.t = t]]
    /\ Goto(th, "ls_active")
    /\ UNCHANGED <<Active, OutputFormat, timers, roots, mu, heap, tmu,
                   loc, out, ret, handles, calls>>

\* LogSince: if !Active { return }
LogSinceActive(th) ==
    /\ Running(th)
    /\ pc[th] = "ls_active"
    /\ IF Active
         THEN Goto(th, "ls_since") /\ UNCHANGED ret
         ELSE Return(th, NIL, NoError, FALSE)
    /\ UNCHANGED <<Active, OutputFormat, timers, roots, mu, heap, tmu,
                   arg, loc, out, handles, calls>>

\* LogSince: t.LogDuration(time.Since(tstart)); the clock decides the duration
LogSinceSince(th, durs) ==
    /\ Running(th)
    /\ pc[th] = "ls_since"
    /\ \E d \in durs : arg' = [arg EXCEPT ![th].d = d]
    /\ Goto(th, "ld_active")
    /\ UNCHANGED <<Active, OutputFormat, timers, roots, mu, heap, tmu,
                   loc, out, ret, handles, calls>>

\* calls after a LogDuration(t, d) call has returned; en: it found Active set.
Logged(c, t, d, en) ==
    IF t = NIL THEN c
    ELSE [c EXCEPT ![t] = [n |-> @.n + 1, sum |-> @.sum + d,
                           en |-> @.en + (IF en THEN 1 ELSE 0),
                           ensum |-> @.ensum + (IF en THEN d ELSE 0)]]

\* LogDuration without the check of Active.
LogDurationActive_NoCheck(th) ==
    /\ Running(th)
    /\ pc[th] = "ld_active"
    /\ Goto(th, "ld_lock")
    /\ UNCHANGED <<Active, OutputFormat, timers, roots, mu, heap, tmu,
                   arg, loc, out, ret, handles, calls>>

\* LogDuration: if !Active { return }
LogDurationActive(th) ==
    /\ Running(th)
    /\ pc[th] = "ld_active"
    /\ IF Active
         THEN Goto(th, "ld_lock") /\ UNCHANGED <<ret, calls>>
         ELSE /\ Return(th, NIL, NoError, FALSE)
              /\ calls' = Logged(calls, arg[th].t, arg[th].d, FALSE)
    /\ UNCHANGED <<Active, OutputFormat, timers, roots, mu, heap, tmu,
                   arg, loc, out, handles>>

\* LogDuration without the wait for the timer's lock.
LogDurationLock_NoExclusion(th) ==
    /\ Running(th)
    /\ pc[th] = "ld_lock"
    /\ arg[th].t # NIL
    /\ tmu' = [tmu EXCEPT ![arg[th].t] = th]
    /\ Goto(th, "ld_loadT")
    /\ UNCHANGED <<Active, OutputFormat, timers, roots, mu, heap,
                   arg, loc, out, ret, handles, calls>>

\* LogDuration waiting for the global lock to be free, too.
LogDurationLock_AfterGlobal(th) ==
    /\ Running(th)
    /\ pc[th] = "ld_lock"
    /\ arg[th].t # NIL
    /\ CanLock(mu)
    /\ CanLock(tmu[arg[th].t])
    /\ tmu' = [tmu EXCEPT ![arg[th].t] = th]
    /\ Goto(th, "ld_loadT")
    /\ UNCHANGED <<Active, OutputFormat, timers, roots, mu, heap,
                   arg, loc, out, ret, handles, calls>>

\* LogDuration: t.mu.Lock(); a nil t has no mutex to lock
LogDurationLock(th) ==
    /\ Running(th)
    /\ pc[th] = "ld_lock"
    /\ IF arg[th].t = NIL
         THEN /\ Goto(th, "panic")
              /\ ret' = [ret EXCEPT ![th] = [t |-> NIL, err |-> NilDereference,
                                             en |-> TRUE]]
              /\ UNCHANGED tmu
         ELSE /\ CanLock(tmu[arg[th].t])
              /\ tmu' = [tmu EXCEPT ![arg[th].t] = th]
              /\ Goto(th, "ld_loadT")
              /\ UNCHANGED ret
    /\ UNCHANGED <<Active, OutputFormat, timers, roots, mu, heap,
                   arg, loc, out, handles, calls>>

\* LogDuration: t.TotalElapsed += d, the load
LogDurationLoadTotal(th) ==
    /\ Running(th)
    /\ pc[th] = "ld_loadT"
    /\ loc' = [loc EXCEPT ![th].tmp = heap[arg[th].t].TotalElapsed]
    /\ Goto(th, "ld_storeT")
    /\ UNCHANGED <<Active, OutputFormat, timers, roots, mu, heap, tmu,
                   arg, out, ret, handles, calls>>

\* LogDuration storing the duration as the total.
LogDurationStoreTotal_Overwrites(th) ==
    /\ Running(th)
    /\ pc[th] = "ld_storeT"
    /\ heap' = [heap EXCEPT ![arg[th].t].TotalElapsed = arg[th].d]
    /\ Goto(th, "ld_loadC")
    /\ UNCHANGED <<Active, OutputFormat, timers, roots, mu, tmu,
                   arg, loc, out, ret, handles, calls>>

\* LogDuration adding the duration to the total of the parent as well.
LogDurationStoreTotal_RollsUp(th) ==
    /\ Running(th)
    /\ pc[th] = "ld_storeT"
    /\ LET t == arg[th].t
           h1 == [heap EXCEPT ![t].TotalElapsed = loc[th].tmp + arg[th].d]
       IN heap' = IF heap[t].Parent = NIL THEN h1
                  ELSE [h1 EXCEPT ![heap[t].Parent].TotalElapsed =
                                      @ + arg[th].d]
    /\ Goto(th, "ld_loadC")
    /\ UNCHANGED <<Active, OutputFormat, timers, roots, mu, tmu,
                   arg, loc, out, ret, handles, calls>>

\* LogDuration: t.TotalElapsed += d, the store
LogDurationStoreTotal(th) ==
    /\ Running(th)
    /\ pc[th] = "ld_storeT"
    /\ heap' = [heap EXCEPT ![arg[th].t].TotalElapsed = loc[th].tmp + arg[th].d]
    /\ Goto(th, "ld_loadC")
    /\ UNCHANGED <<Active, OutputFormat, timers, roots, mu, tmu,
                   arg, loc, out, ret, handles, calls>>

\* LogDuration: t.CalledTimes++, the load
LogDurationLoadCalls(th) ==
    /\ Running(th)
    /\ pc[th] = "ld_loadC"
    /\ loc' = [loc EXCEPT ![th].tmp = heap[arg[th].t].CalledTimes]
    /\ Goto(th, "ld_storeC")
    /\ UNCHANGED <<Active, OutputFormat, timers, roots, mu, heap, tmu,
                   arg, out, ret, handles, calls>>

\* LogDuration leaving the count as it is.
LogDurationStoreCalls_NoCount(th) ==
    /\ Running(th)
    /\ pc[th] = "ld_storeC"
    /\ heap' = [heap EXCEPT ![arg[th].t].CalledTimes = loc[th].tmp]
    /\ Goto(th, "ld_unlock")
    /\ UNCHANGED <<Active, OutputFormat, timers, roots, mu, tmu,
                   arg, loc, out, ret, handles, calls>>

\* LogDuration: t.CalledTimes++, the store
LogDurationStoreCalls(th) ==
    /\ Running(th)
    /\ pc[th] = "ld_storeC"
    /\ heap' = [heap EXCEPT ![arg[th].t].CalledTimes = loc[th].tmp + 1]
    /\ Goto(th, "ld_unlock")
    /\ UNCHANGED <<Active, OutputFormat, timers, roots, mu, tmu,
                   arg, loc, out, ret, handles, calls>>

\* LogDuration: the deferred t.mu.Unlock(), and the return
LogDurationUnlock(th) ==
    /\ Running(th)
    /\ pc[th] = "ld_unlock"
    /\ tmu' = [tmu EXCEPT ![arg[th].t] = 0]
    /\ Return(th, NIL, NoError, TRUE)
    /\ calls' = Logged(calls, arg[th].t, arg[th].d, TRUE)
    /\ UNCHANGED <<Active, OutputFormat, timers, roots, mu, heap,
                   arg, loc, out, handles>>

LogSinceSteps(th, durs) ==
    \/ LogSinceActive(th)
    \/ LogSinceSince(th, durs)

LogDurationSteps(th) ==
    \/ LogDurationActive(th)
    \/ LogDurationLock(th)
    \/ LogDurationLoadTotal(th)
    \/ LogDurationStoreTotal(th)
    \/ LogDurationLoadCalls(th)
    \/ LogDurationStoreCalls(th)
    \/ LogDurationUnlock(th)

-----------------------------------------------------------------------------
(* The report renderer (timer.go:172-352) *)

ReportOps == {"Report", "ReportAll"}

\* hasActivity: a child has activity, or t.TotalElapsed > 0.  This is the
\* value of a call during which no goroutine writes to the timers it reads,
\* as is calculateLengths below; a call next to writers makes the reads one
\* by one (hasActivityStep, calculateLengthsStep).
RECURSIVE hasActivity(_, _)
hasActivity(h, t) ==
    \/ \E k \in 1..Len(h[t].Children) : hasActivity(h, h[t].Children[k])
    \/ h[t].TotalElapsed > 0

\* calculateLengths: the maxima taken at timer t itself
OwnLengths(tm, lengths, level) ==
    [leaderLen |-> max(lengths.leaderLen, level * 2 + Len(tm.Name)),
     totalLen  |-> max(lengths.totalLen, Len(DurationString(tm.TotalElapsed))),
     callsLen  |-> max(lengths.callsLen, Len(Itoa(tm.CalledTimes))),
     avgLen    |-> IF tm.CalledTimes > 0
                     THEN max(lengths.avgLen,
                              Len(DurationString(GoDiv(tm.TotalElapsed,
                                                       tm.CalledTimes))))
                     ELSE lengths.avgLen]

\* calculateLengths(lengths, level) on timer t: lengths as the call leaves it.
\* calculateChildren is its loop over t.Children, from the k-th child on.
RECURSIVE calculateLengths(_, _, _, _)
RECURSIVE calculateChildren(_, _, _, _, _)
calculateLengths(h, t, lengths, level) ==
    IF ~hasActivity(h, t) THEN lengths
    ELSE calculateChildren(h, h[t].Children, 1,
                           OwnLengths(h[t], lengths, level), level + 1)

calculateChildren(h, cs, k, lengths, level) ==
    IF k > Len(cs) THEN lengths
    ELSE calculateChildren(h, cs, k + 1,
                           calculateLengths(h, cs[k], lengths, level), level)

\* reportTable at lev == 0: the widths are at least those of the labels
LabelLengths(rLen) ==
    [leaderLen |-> max(rLen.leaderLen, Len(leaderLabel)),
     totalLen  |-> max(rLen.totalLen, Len(totalLabel)),
     callsLen  |-> max(rLen.callsLen, Len(callsLabel)),
     avgLen    |-> max(rLen.avgLen, Len(avgLabel))]

\* What a report writes, piece by piece: a ruler of the table, the header row
\* of the table, the header line of the CSV output, or the row of a timer.
Item(kind, w) ==
    [kind |-> kind, fmt |-> Table, lev |-> 0, t |-> NIL, name |-> <<>>,
     total |-> 0, calls |-> 0, hasAvg |-> FALSE, avg |-> 0, w |-> w]

Ruler(rLen) == Item("rule", rLen)

Header(rLen) == Item("header", rLen)

CSVHeader == [Item("csvheader", ZeroLen) EXCEPT !.fmt = CSV]

Row(fmt, lev, t, name, total, count, hasAvg, avg, rLen) ==
    [kind |-> "row", fmt |-> fmt, lev |-> lev, t |-> t, name |-> name,
     total |-> total, calls |-> count, hasAvg |-> hasAvg, avg |-> avg,
     w |-> IF fmt = CSV THEN ZeroLen ELSE rLen]

\* The work list of a report: the calls the goroutine still has to make or to
\* finish, first the one it is in.  Each names the function, its timer, its
\* level, and the position the call is at: the next access to memory that
\* other goroutines write.
\*   hasActivity:       "range" (t.Children, 346), "total" (t.TotalElapsed, 351)
\*   calculateLengths:  "act" (hasActivity is evaluated, 222), "totalLen" (226),
\*                      "callsLen" (227), "ifCalls" (228), "avgT", "avgC" (230),
\*                      "range" (232)
\*   reportWithFormatting: "act" (hasActivity is evaluated, 215)
\*   report:            "switch" (OutputFormat, 238)
\*   reportTable:       "ifCalls" (292), "avgT", "avgC" (293), "total" (296),
\*                      "calls" (297), "range" (300), "ruler" (304-306)
\*   reportPlainText:   "total", "calls" (317-318), "ifCalls" (319), "avgT",
\*                      "avgC" (321), "range" (325)
\*   reportCSV:         "total", "calls" (334), "ifCalls" (335), "avgT", "avgC"
\*                      (336), "range" (340)
Todo(fn, t, lev, at) == [fn |-> fn, t |-> t, lev |-> lev, at |-> at]

\* t.hasActivity() is to evaluate.
HasActivityTodo(t) == Todo("hasActivity", t, 0, "range")

\* t.calculateLengths(lengths, lev) is to run: it begins with t.hasActivity().
CalculateTodos(t, lev) ==
    <<HasActivityTodo(t), Todo("calculateLengths", t, lev, "act")>>

\* t.reportWithFormatting(wr, rLen) is to run: it begins with t.hasActivity().
ReportWithFormattingTodos(t) ==
    <<HasActivityTodo(t), Todo("reportWithFormatting", t, 0, "act")>>

\* The function that report calls for a format, and the format of a function.
RenderFn(fmt) ==
    IF fmt = Table THEN "reportTable"
    ELSE IF fmt = PlainText THEN "reportPlainText"
    ELSE "reportCSV"

FmtOf(fn) ==
    IF fn = "reportTable" THEN Table
    ELSE IF fn = "reportPlainText" THEN PlainText
    ELSE CSV

\* The position at which a call of a function begins.
FirstAt(fn) ==
    IF fn = "report" THEN "switch"
    ELSE IF fn = "reportTable" THEN "ifCalls"
    ELSE "total"

\* The function that visits the children of a timer rendered in format fmt:
\* reportTable and reportCSV call themselves, reportPlainText calls report.
ChildMode(fmt) == IF fmt = PlainText THEN "report" ELSE RenderFn(fmt)

\* The loop over t.Children leaving out the children without activity.
ChildTodos_OnlyActive(cs, lev, fmt) ==
    LET act == SelectSeq(cs, LAMBDA c : heap[c].TotalElapsed > 0)
    IN [k \in 1..Len(act) |->
          Todo(ChildMode(fmt), act[k], lev + 1, FirstAt(ChildMode(fmt)))]

\* The loop over t.Children taking the youngest child first.
ChildTodos_Reversed(cs, lev, fmt) ==
    [k \in 1..Len(cs) |->
        Todo(ChildMode(fmt), cs[Len(cs) + 1 - k], lev + 1, FirstAt(ChildMode(fmt)))]

\* for _, c := range t.Children { c.report...(lev+1, ...) }
ChildTodos(cs, lev, fmt) ==
    [k \in 1..Len(cs) |->
        Todo(ChildMode(fmt), cs[k], lev + 1, FirstAt(ChildMode(fmt)))]

\* The closing ruler that reportTable at lev 0 writes after the children.
ClosingRuler(t) == Todo("reportTable", t, 0, "ruler")

\* reportTable writing the closing ruler before the rows of the children.
RangeTodos_RulerFirst(cs, t, lev, fmt) ==
    (IF fmt = Table /\ lev = 0 THEN <<ClosingRuler(t)>> ELSE <<>>)
    \o ChildTodos(cs, lev, fmt)

\* What is left of a rendering function once t.Children is read: the calls on
\* the children and, in reportTable at lev 0, the closing ruler.
RangeTodos(cs, t, lev, fmt) ==
    ChildTodos(cs, lev, fmt)
    \o (IF fmt = Table /\ lev = 0 THEN <<ClosingRuler(t)>> ELSE <<>>)

\* for _, c := range t.Children { c.calculateLengths(lengths, level+1) }
CalculateChildTodos(cs, lev) ==
    [k \in 1..2 * Len(cs) |->
        IF k % 2 = 1 THEN HasActivityTodo(cs[(k + 1) \div 2])
        ELSE Todo("calculateLengths", cs[k \div 2], lev + 1, "act")]

\* The call the goroutine is in, and the calls after it.
Top(th) == Head(loc[th].stack)

Rest(th) == Tail(loc[th].stack)

\* The goroutine goes on with the work list, or with its caller at the label
\* cont when the list is empty.
Continue(th, stack) ==
    pc' = [pc EXCEPT ![th] = IF stack = <<>> THEN loc[th].cont ELSE "run"]

\* The work list without the calls of hasActivity it begins with.
RECURSIVE DropHasActivity(_)
DropHasActivity(stack) ==
    IF stack # <<>> /\ Head(stack).fn = "hasActivity"
      THEN DropHasActivity(Tail(stack))
      ELSE stack

\* reportWithFormatting calling report whatever hasActivity returned.
Resume_NoFilter(stack, v) ==
    IF stack = <<>> THEN <<>>
    ELSE IF Head(stack).fn = "calculateLengths"
      THEN IF v THEN <<[Head(stack) EXCEPT !.at = "totalLen"]>> \o Tail(stack)
           ELSE Tail(stack)
    ELSE <<Todo("report", Head(stack).t, Head(stack).lev, "switch")>>
         \o Tail(stack)

\* The work list once hasActivity has returned v to the call that waits for
\* it: if !t.hasActivity() { return }, in calculateLengths and in
\* reportWithFormatting, which goes on with t.report(0, rLen, wr).
Resume(stack, v) ==
    IF stack = <<>> THEN <<>>
    ELSE IF ~v THEN Tail(stack)
    ELSE IF Head(stack).fn = "calculateLengths"
      THEN <<[Head(stack) EXCEPT !.at = "totalLen"]>> \o Tail(stack)
    ELSE <<Todo("report", Head(stack).t, Head(stack).lev, "switch")>>
         \o Tail(stack)

\* A goroutine calls t.Report(wr) on a handle that New or MustNew returned.
BeginReport(th) ==
    /\ Running(th)
    /\ pc[th] = "idle"
    /\ \E t \in handles :
         arg' = [arg EXCEPT ![th] = [NoArg EXCEPT !.op = "Report", !.t = t]]
    /\ Goto(th, "rp_active")
    /\ UNCHANGED <<Active, OutputFormat, timers, roots, mu, heap, tmu,
                   loc, out, ret, handles, calls>>

\* A goroutine calls ReportAll(wr).
BeginReportAll(th) ==
    /\ Running(th)
    /\ pc[th] = "idle"
    /\ arg' = [arg EXCEPT ![th] = [NoArg EXCEPT !.op = "ReportAll"]]
    /\ Goto(th, "ra_active")
    /\ UNCHANGED <<Active, OutputFormat, timers, roots, mu, heap, tmu,
                   loc, out, ret, handles, calls>>

\* hasActivity, one access to memory per step.  At "range" it reads
\* t.Children: the calls on the children come first, then the test of the
\* timer's own total.  At "total" it reads t.TotalElapsed: a total above zero
\* makes every call of hasActivity that waits return true; otherwise the next
\* call goes on, and when none is left hasActivity has returned false.  The
\* call that waits for the value goes on in the same step; seen records the
\* roots that calculateLengths in ReportAll found with activity.
hasActivityStep(th) ==
    /\ Running(th)
    /\ pc[th] = "run"
    /\ Top(th).fn = "hasActivity"
    /\ LET f == Top(th)
           cs == heap[f.t].Children
           v == heap[f.t].TotalElapsed > 0
           waiting == DropHasActivity(Rest(th))
           stack == Resume(waiting, v)
       IN IF f.at = "range"
            THEN /\ loc' = [loc EXCEPT ![th].stack =
                              [k \in 1..Len(cs) |-> HasActivityTodo(cs[k])]
                              \o <<[f EXCEPT !.at = "total"]>> \o Rest(th)]
                 /\ UNCHANGED pc
          ELSE IF ~v /\ Rest(th) # waiting
            THEN /\ loc' = [loc EXCEPT ![th].stack = Rest(th)]
                 /\ UNCHANGED pc
          ELSE /\ loc' = [loc EXCEPT
                     ![th].stack = stack,
                     ![th].res = v,
                     ![th].seen = IF /\ v /\ waiting # <<>>
                                     /\ arg[th].op = "ReportAll"
                                     /\ Head(waiting).fn = "calculateLengths"
                                     /\ Head(waiting).lev = 0
                                    THEN @ \cup {Head(waiting).t} ELSE @]
               /\ Continue(th, stack)
    /\ UNCHANGED <<Active, OutputFormat, timers, roots, mu, heap, tmu,
                   arg, out, ret, handles, calls>>

\* calculateLengths after its test of hasActivity, one access to memory per
\* step: the name and the total for leaderLen and totalLen, the count for
\* callsLen, the count for the test, the total and the count for avgLen, and
\* t.Children for the loop.
calculateLengthsStep(th) ==
    /\ Running(th)
    /\ pc[th] = "run"
    /\ Top(th).fn = "calculateLengths"
    /\ LET f == Top(th)
           tm == heap[f.t]
           to(at) == <<[f EXCEPT !.at = at]>> \o Rest(th)
       IN \/ /\ f.at = "totalLen"
             /\ loc' = [loc EXCEPT
                   ![th].rLen.leaderLen = max(@, f.lev * 2 + Len(tm.Name)),
                   ![th].rLen.totalLen = max(@, Len(DurationString(tm.TotalElapsed))),
                   ![th].stack = to("callsLen")]
             /\ UNCHANGED pc
          \/ /\ f.at = "callsLen"
             /\ loc' = [loc EXCEPT
                   ![th].rLen.callsLen = max(@, Len(Itoa(tm.CalledTimes))),
                   ![th].stack = to("ifCalls")]
             /\ UNCHANGED pc
          \/ /\ f.at = "ifCalls"
             /\ loc' = [loc EXCEPT ![th].stack =
                          to(IF tm.CalledTimes > 0 THEN "avgT" ELSE "range")]
             /\ UNCHANGED pc
          \/ /\ f.at = "avgT"
             /\ loc' = [loc EXCEPT ![th].tmp = tm.TotalElapsed,
                                   ![th].stack = to("avgC")]
             /\ UNCHANGED pc
          \/ /\ f.at = "avgC"
             /\ loc' = [loc EXCEPT
                   ![th].rLen.avgLen =
                       max(@, Len(DurationString(GoDiv(loc[th].tmp,
                                                       tm.CalledTimes)))),
                   ![th].tmp = 0,
                   ![th].stack = to("range")]
             /\ UNCHANGED pc
          \/ /\ f.at = "range"
             /\ LET stack == CalculateChildTodos(tm.Children, f.lev) \o Rest(th)
                IN /\ loc' = [loc EXCEPT ![th].stack = stack]
                   /\ Continue(th, stack)
    /\ UNCHANGED <<Active, OutputFormat, timers, roots, mu, heap, tmu,
                   arg, out, ret, handles, calls>>

\* report: switch OutputFormat, and the beginning of the function it calls: at
\* lev 0 reportTable raises the widths to the labels' and writes ruler,
\* header, ruler, and reportCSV writes the header line.
reportStep(th) ==
    /\ Running(th)
    /\ pc[th] = "run"
    /\ Top(th).fn = "report"
    /\ LET f == Top(th)
           fmt == OutputFormat
           rLen == IF fmt = Table /\ f.lev = 0
                     THEN LabelLengths(loc[th].rLen) ELSE loc[th].rLen
           head == IF f.lev # 0 THEN <<>>
                   ELSE IF fmt = Table
                     THEN <<Ruler(rLen), Header(rLen), Ruler(rLen)>>
                   ELSE IF fmt = CSV THEN <<CSVHeader>>
                   ELSE <<>>
       IN /\ out' = [out EXCEPT ![th] = @ \o head]
          /\ loc' = [loc EXCEPT
                ![th].rLen = rLen,
                ![th].rd = NoRead,
                ![th].stack = <<Todo(RenderFn(fmt), f.t, f.lev,
                                     FirstAt(RenderFn(fmt)))>> \o Rest(th)]
    /\ UNCHANGED <<Active, OutputFormat, timers, roots, mu, heap, tmu,
                   pc, arg, ret, handles, calls>>

\* An average shown whatever the count.
Average_Unguarded(total, count) ==
    [hasAvg |-> TRUE, avg |-> IF count = 0 THEN 0 ELSE GoDiv(total, count)]

\* The average a row shows for a total and a count: none for a count of zero.
Average(total, count) ==
    [hasAvg |-> count > 0, avg |-> IF count > 0 THEN GoDiv(total, count) ELSE 0]

\* The position after the access at position at: reportTable computes avg
\* before it writes the total and the count, reportPlainText and reportCSV
\* write the total and the count first; the average is computed only when the
\* count read for the test was above zero.
NextAt(fn, at, hasAvg) ==
    IF fn = "reportTable"
      THEN IF at = "ifCalls" THEN (IF hasAvg THEN "avgT" ELSE "total")
           ELSE IF at = "avgT" THEN "avgC"
           ELSE IF at = "avgC" THEN "total"
           ELSE IF at = "total" THEN "calls"
           ELSE "range"
      ELSE IF at = "total" THEN "calls"
           ELSE IF at = "calls" THEN "ifCalls"
           ELSE IF at = "ifCalls" THEN (IF hasAvg THEN "avgT" ELSE "range")
           ELSE IF at = "avgT" THEN "avgC"
           ELSE "range"

\* reportTable, reportPlainText or reportCSV, one access to memory per step:
\* each read of t.TotalElapsed and of t.CalledTimes on its own, the row
\* written once its last value is read, then the read of t.Children for the
\* loop over the children, and the closing ruler of reportTable at lev 0.
RenderStep(th, fn) ==
    /\ Running(th)
    /\ pc[th] = "run"
    /\ Top(th).fn = fn
    /\ LET f == Top(th)
           fmt == FmtOf(fn)
           tm == heap[f.t]
           rd == loc[th].rd
           rd1 == IF f.at = "total" THEN [rd EXCEPT !.total = tm.TotalElapsed]
                  ELSE IF f.at = "calls" THEN [rd EXCEPT !.calls = tm.CalledTimes]
                  ELSE IF f.at = "ifCalls"
                    THEN [rd EXCEPT !.hasAvg = Average(0, tm.CalledTimes).hasAvg]
                  ELSE IF f.at = "avgC"
                    THEN [rd EXCEPT !.avg = Average(loc[th].tmp,
                                                    tm.CalledTimes).avg]
                  ELSE rd
           tmp1 == IF f.at = "avgT" THEN tm.TotalElapsed
                   ELSE IF f.at = "avgC" THEN 0
                   ELSE loc[th].tmp
           next == NextAt(fn, f.at, rd1.hasAvg)
           row == Row(fmt, f.lev, f.t, tm.Name, rd1.total, rd1.calls,
                      rd1.hasAvg, rd1.avg, loc[th].rLen)
           children == RangeTodos(tm.Children, f.t, f.lev, fmt) \o Rest(th)
       IN IF f.at = "ruler"
            THEN /\ out' = [out EXCEPT ![th] = Append(@, Ruler(loc[th].rLen))]
                 /\ loc' = [loc EXCEPT ![th].stack = Rest(th)]
                 /\ Continue(th, Rest(th))
          ELSE IF f.at = "range"
            THEN /\ loc' = [loc EXCEPT ![th].stack = children]
                 /\ Continue(th, children)
                 /\ UNCHANGED out
          ELSE /\ loc' = [loc EXCEPT
                     ![th].rd = IF next = "range" THEN NoRead ELSE rd1,
                     ![th].tmp = tmp1,
                     ![th].stack = <<[f EXCEPT !.at = next]>> \o Rest(th)]
               /\ out' = [out EXCEPT ![th] =
                            IF next = "range" THEN Append(@, row) ELSE @]
               /\ UNCHANGED pc
    /\ UNCHANGED <<Active, OutputFormat, timers, roots, mu, heap, tmu,
                   arg, ret, handles, calls>>

reportTableStep(th) == RenderStep(th, "reportTable")

reportPlainTextStep(th) == RenderStep(th, "reportPlainText")

reportCSVStep(th) == RenderStep(th, "reportCSV")

\* Report: if !Active ... { return }
ReportActive(th) ==
    /\ Running(th)
    /\ pc[th] = "rp_active"
    /\ IF Active
         THEN Goto(th, "rp_hasact") /\ UNCHANGED ret
         ELSE Return(th, NIL, NoError, FALSE)
    /\ UNCHANGED <<Active, OutputFormat, timers, roots, mu, heap, tmu,
                   arg, loc, out, handles, calls>>

\* Report: ... !t.hasActivity() is to evaluate; a nil t has no Children to
\* read
ReportHasActivity(th) ==
    /\ Running(th)
    /\ pc[th] = "rp_hasact"
    /\ IF arg[th].t = NIL
         THEN /\ Goto(th, "panic")
              /\ ret' = [ret EXCEPT ![th] = [t |-> NIL, err |-> NilDereference,
                                             en |-> TRUE]]
              /\ UNCHANGED loc
         ELSE /\ loc' = [loc EXCEPT ![th].stack = <<HasActivityTodo(arg[th].t)>>,
                                    ![th].cont = "rp_filter"]
              /\ Goto(th, "run")
              /\ UNCHANGED ret
    /\ UNCHANGED <<Active, OutputFormat, timers, roots, mu, heap, tmu,
                   arg, out, handles, calls>>

\* Report going on whatever t.hasActivity() returned.
ReportFilter_NoFilter(th) ==
    /\ Running(th)
    /\ pc[th] = "rp_filter"
    /\ Goto(th, "rp_lock")
    /\ UNCHANGED <<Active, OutputFormat, timers, roots, mu, heap, tmu,
                   arg, loc, out, ret, handles, calls>>

\* Report: if ... !t.hasActivity() { return }
ReportFilter(th) ==
    /\ Running(th)
    /\ pc[th] = "rp_filter"
    /\ IF loc[th].res
         THEN Goto(th, "rp_lock") /\ UNCHANGED ret
         ELSE Return(th, NIL, NoError, TRUE)
    /\ UNCHANGED <<Active, OutputFormat, timers, roots, mu, heap, tmu,
                   arg, loc, out, handles, calls>>

\* Report: t.mu.Lock()
ReportLock(th) ==
    /\ Running(th)
    /\ pc[th] = "rp_lock"
    /\ CanLock(tmu[arg[th].t])
    /\ tmu' = [tmu EXCEPT ![arg[th].t] = th]
    /\ Goto(th, "rp_calc")
    /\ UNCHANGED <<Active, OutputFormat, timers, roots, mu, heap,
                   arg, loc, out, ret, handles, calls>>

\* Report: rLen := &reportLen{}; t.calculateLengths(rLen, 0) is to run
ReportCalculate(th) ==
    /\ Running(th)
    /\ pc[th] = "rp_calc"
    /\ loc' = [loc EXCEPT ![th].rLen = ZeroLen,
                          ![th].stack = CalculateTodos(arg[th].t, 0),
                          ![th].cont = "rp_report"]
    /\ Goto(th, "run")
    /\ UNCHANGED <<Active, OutputFormat, timers, roots, mu, heap, tmu,
                   arg, out, ret, handles, calls>>

\* Report: t.report(0, rLen, wr) is to run
ReportReport(th) ==
    /\ Running(th)
    /\ pc[th] = "rp_report"
    /\ loc' = [loc EXCEPT ![th].stack = <<Todo("report", arg[th].t, 0, "switch")>>,
                          ![th].cont = "rp_unlock"]
    /\ Goto(th, "run")
    /\ UNCHANGED <<Active, OutputFormat, timers, roots, mu, heap, tmu,
                   arg, out, ret, handles, calls>>

\* Report: the deferred t.mu.Unlock(), and the return
ReportUnlock(th) ==
    /\ Running(th)
    /\ pc[th] = "rp_unlock"
    /\ tmu' = [tmu EXCEPT ![arg[th].t] = 0]
    /\ Return(th, NIL, NoError, TRUE)
    /\ UNCHANGED <<Active, OutputFormat, timers, roots, mu, heap,
                   arg, loc, out, handles, calls>>

\* ReportAll: if !Active { return }
ReportAllActive(th) ==
    /\ Running(th)
    /\ pc[th] = "ra_active"
    /\ IF Active
         THEN Goto(th, "ra_lock") /\ UNCHANGED ret
         ELSE Return(th, NIL, NoError, FALSE)
    /\ UNCHANGED <<Active, OutputFormat, timers, roots, mu, heap, tmu,
                   arg, loc, out, handles, calls>>

\* ReportAll: mu.Lock(); rLen := &reportLen{}
ReportAllLock(th) ==
    /\ Running(th)
    /\ pc[th] = "ra_lock"
    /\ CanLock(mu)
    /\ mu' = th
    /\ loc' = [loc EXCEPT ![th].rLen = ZeroLen, ![th].i = 1]
    /\ Goto(th, "ra_calc")
    /\ UNCHANGED <<Active, OutputFormat, timers, roots, heap, tmu,
                   arg, out, ret, handles, calls>>

\* ReportAll: for _, r := range roots { r.calculateLengths(rLen, 0) }, the
\* call for the next root is to run
ReportAllCalculate(th) ==
    /\ Running(th)
    /\ pc[th] = "ra_calc"
    /\ IF loc[th].i <= Len(roots)
         THEN /\ loc' = [loc EXCEPT
                    ![th].stack = CalculateTodos(roots[loc[th].i], 0),
                    ![th].cont = "ra_calc",
                    ![th].i = @ + 1]
              /\ Goto(th, "run")
         ELSE /\ loc' = [loc EXCEPT ![th].i = 1]
              /\ Goto(th, "ra_root")
    /\ UNCHANGED <<Active, OutputFormat, timers, roots, mu, heap, tmu,
                   arg, out, ret, handles, calls>>

\* ReportAll taking the youngest root first.
ReportAllRoot_Backwards(th) ==
    /\ Running(th)
    /\ pc[th] = "ra_root"
    /\ IF loc[th].i > Len(roots)
         THEN Goto(th, "ra_unlock") /\ UNCHANGED loc
         ELSE /\ loc' = [loc EXCEPT
                    ![th].stack = ReportWithFormattingTodos(
                                      roots[Len(roots) + 1 - loc[th].i]),
                    ![th].cont = "ra_next"]
              /\ Goto(th, "run")
    /\ UNCHANGED <<Active, OutputFormat, timers, roots, mu, heap, tmu,
                   arg, out, ret, handles, calls>>

\* ReportAll: for _, r := range roots { r.reportWithFormatting(wr, rLen) }, the
\* call for the next root is to run
ReportAllRoot(th) ==
    /\ Running(th)
    /\ pc[th] = "ra_root"
    /\ IF loc[th].i > Len(roots)
         THEN Goto(th, "ra_unlock") /\ UNCHANGED loc
         ELSE /\ loc' = [loc EXCEPT
                    ![th].stack = ReportWithFormattingTodos(roots[loc[th].i]),
                    ![th].cont = "ra_next"]
              /\ Goto(th, "run")
    /\ UNCHANGED <<Active, OutputFormat, timers, roots, mu, heap, tmu,
                   arg, out, ret, handles, calls>>

\* ReportAll: reportWithFormatting has returned, on to the next root
ReportAllNext(th) ==
    /\ Running(th)
    /\ pc[th] = "ra_next"
    /\ loc' = [loc EXCEPT ![th].i = @ + 1]
    /\ Goto(th, "ra_root")
    /\ UNCHANGED <<Active, OutputFormat, timers, roots, mu, heap, tmu,
                   arg, out, ret, handles, calls>>

\* ReportAll: the deferred mu.Unlock(), and the return
ReportAllUnlock(th) ==
    /\ Running(th)
    /\ pc[th] = "ra_unlock"
    /\ mu' = 0
    /\ Return(th, NIL, NoError, TRUE)
    /\ UNCHANGED <<Active, OutputFormat, timers, roots, heap, tmu,
                   arg, loc, out, handles, calls>>

\* The locks goroutine th holds: 0 for mu, t for the mu of timer t.
LocksHeld(th) ==
    (IF mu = th THEN {0} ELSE {}) \cup {t \in 1..Len(tmu) : tmu[t] = th}

\* The next step of goroutine th reads the Children of timer p: the loop of
\* hasActivity, of calculateLengths or of a rendering function over
\* t.Children, on whichever timer of the subtree the report has reached.
ReadsChildren(th, p) ==
    /\ pc[th] = "run"
    /\ Top(th).at = "range"
    /\ Top(th).t = p

\* The next step of goroutine th reads the Children of a timer to which the
\* next step of goroutine w appends, and no lock keeps the two apart.
ChildrenRace(th, w) ==
    /\ w # th
    /\ pc[w] = "new_link" /\ arg[w].parent # NIL
    /\ ReadsChildren(th, arg[w].parent)
    /\ LocksHeld(th) \cap LocksHeld(w) = {}

\* A read of t.Children that overlaps the append in New may see the slice
\* before or after the append, which the interleaving of the steps gives, or a
\* slice header that is half written, with which the read faults.
ReadTornChildren(th) ==
    /\ Running(th)
    /\ \E w \in Threads : ChildrenRace(th, w)
    /\ Goto(th, "panic")
    /\ ret' = [ret EXCEPT ![th] = [t |-> NIL, err |-> MemoryFault, en |-> TRUE]]
    /\ UNCHANGED <<Active, OutputFormat, timers, roots, mu, heap, tmu,
                   arg, loc, out, handles, calls>>

\* The steps of the functions that Report and ReportAll call, when
\* OutputFormat stays Table.
TableSteps(th) ==
    \/ hasActivityStep(th)
    \/ calculateLengthsStep(th)
    \/ reportStep(th)
    \/ reportTableStep(th)

\* The steps of the functions that Report and ReportAll call.
VisitSteps(th) ==
    \/ TableSteps(th)
    \/ reportPlainTextStep(th)
    \/ reportCSVStep(th)

ReportSteps(th) ==
    \/ ReportActive(th)
    \/ ReportHasActivity(th)
    \/ ReportFilter(th)
    \/ ReportLock(th)
    \/ ReportCalculate(th)
    \/ ReportReport(th)
    \/ ReportUnlock(th)

ReportAllSteps(th) ==
    \/ ReportAllActive(th)
    \/ ReportAllLock(th)
    \/ ReportAllCalculate(th)
    \/ ReportAllRoot(th)
    \/ ReportAllNext(th)
    \/ ReportAllUnlock(th)

-----------------------------------------------------------------------------
(* Specifications *)

\* Spec: the goroutines create timers concurrently while the application
\* toggles Active.
Next ==
    \/ SetActive
    \/ \E th \in Threads :
         \/ BeginNew(th, "New", RegTimers)
         \/ BeginNew(th, "MustNew", RegTimers)
         \/ NewSteps(th)
         \/ MustNewSteps(th)
         \/ Returned(th)

Spec == Init /\ [][Next]_vars

\* SpecCreate: one goroutine creates timers, one call after the other, while
\* the application toggles Active.
NextCreate ==
    \/ SetActive
    \/ BeginNew(1, "New", CreateTimers)
    \/ BeginNew(1, "MustNew", CreateTimers)
    \/ NewSteps(1)
    \/ MustNewSteps(1)
    \/ Returned(1)

SpecCreate == Init /\ [][NextCreate]_vars

\* SpecLog: the goroutines create timers and log durations on them
\* concurrently while the application toggles Active.
NextLog ==
    \/ SetActive
    \/ \E th \in Threads :
         \/ BeginNew(th, "New", LogTimers)
         \/ NewSteps(th)
         \/ BeginLogDuration(th, LogCalls, Durations)
         \/ BeginLogSince(th, LogCalls)
         \/ LogSinceSteps(th, Durations)
         \/ LogDurationSteps(th)
         \/ Returned(th)

SpecLog == Init /\ [][NextLog]_vars

\* SpecRace: goroutine 1 reports while goroutine 2 creates timers and logs
\* durations of 1ns on them and the application toggles Active; while no call
\* is in progress the application may set OutputFormat.
NextRace ==
    \/ SetActive
    \/ (\A th \in Threads : pc[th] = "idle") /\ SetOutputFormat
    \/ BeginReport(1)
    \/ BeginReportAll(1)
    \/ ReportSteps(1)
    \/ ReportAllSteps(1)
    \/ VisitSteps(1)
    \/ ReadTornChildren(1)
    \/ BeginLogDuration(2, RaceCalls, {1})
    \/ BeginLogSince(2, RaceCalls)
    \/ LogSinceSteps(2, {1})
    \/ LogDurationSteps(2)
    \/ BeginNew(2, "New", RaceTimers)
    \/ NewSteps(2)
    \/ \E th \in Threads : Returned(th)

SpecRace == Init /\ [][NextRace]_vars

\* SpecSeq: one goroutine creates timers, logs durations and reports, one call
\* after the other; between two calls the application may set OutputFormat.
NextSeq ==
    \/ pc[1] = "idle" /\ SetOutputFormat
    \/ BeginNew(1, "New", SeqTimers)
    \/ NewSteps(1)
    \/ BeginLogDuration(1, SeqCalls, SeqDurations)
    \/ BeginLogSince(1, SeqCalls)
    \/ LogSinceSteps(1, SeqDurations)
    \/ LogDurationSteps(1)
    \/ BeginReport(1)
    \/ BeginReportAll(1)
    \/ ReportSteps(1)
    \/ ReportAllSteps(1)
    \/ VisitSteps(1)
    \/ Returned(1)

SpecSeq == Init /\ [][NextSeq]_vars

\* SpecLock: goroutine 1 calls ReportAll, goroutine 2 creates timers and calls
\* Report, and both log durations of 1ns.  Active stays set and OutputFormat
\* stays Table.
NextLock ==
    \/ BeginReportAll(1)
    \/ ReportAllSteps(1)
    \/ BeginNew(2, "New", LockTimers)
    \/ NewSteps(2)
    \/ BeginReport(2)
    \/ ReportSteps(2)
    \/ BeginLogSince(1, LockCalls)
    \/ LogSinceSteps(1, {1})
    \/ \E th \in Threads :
         \/ BeginLogDuration(th, LockCalls, {1})
         \/ LogDurationSteps(th)
         \/ TableSteps(th)
         \/ Returned(th)

SpecLock == Init /\ [][NextLock]_vars

\* SpecNeg: one goroutine creates timers, logs durations of any sign and
\* reports, one call after the other; OutputFormat stays Table.
NextNeg ==
    \/ BeginNew(1, "New", NegTimers)
    \/ NewSteps(1)
    \/ BeginLogDuration(1, NegCalls, Durations)
    \/ LogDurationSteps(1)
    \/ BeginReport(1)
    \/ BeginReportAll(1)
    \/ ReportSteps(1)
    \/ ReportAllSteps(1)
    \/ TableSteps(1)
    \/ Returned(1)

SpecNeg == Init /\ [][NextNeg]_vars

\* SpecFmt: one goroutine creates timers, logs durations of 1ns and reports,
\* while the application sets OutputFormat at any moment.
NextFmt ==
    \/ SetOutputFormat
    \/ BeginNew(1, "New", FmtTimers)
    \/ NewSteps(1)
    \/ BeginLogDuration(1, FmtCalls, {1})
    \/ LogDurationSteps(1)
    \/ BeginReport(1)
    \/ BeginReportAll(1)
    \/ ReportSteps(1)
    \/ ReportAllSteps(1)
    \/ VisitSteps(1)
    \/ Returned(1)

SpecFmt == Init /\ [][NextFmt]_vars

\* SpecPos: one goroutine creates timers, logs durations of 0ns and 1ns and
\* reports, one call after the other; Active stays set and OutputFormat stays
\* Table.
NextPos ==
    \/ BeginNew(1, "New", PosTimers)
    \/ NewSteps(1)
    \/ BeginLogDuration(1, PosCalls, {0, 1})
    \/ LogDurationSteps(1)
    \/ BeginReportAll(1)
    \/ ReportAllSteps(1)
    \/ TableSteps(1)
    \/ Returned(1)

SpecPos == Init /\ [][NextPos]_vars

\* SpecOff: goroutine 1 reports while goroutine 2 creates a timer and logs
\* durations of 1ns on it and the application toggles Active; OutputFormat
\* stays Table.
NextOff ==
    \/ SetActive
    \/ BeginReport(1)
    \/ BeginReportAll(1)
    \/ ReportSteps(1)
    \/ ReportAllSteps(1)
    \/ TableSteps(1)
    \/ BeginLogDuration(2, OffCalls, {1})
    \/ BeginLogSince(2, OffCalls)
    \/ LogSinceSteps(2, {1})
    \/ LogDurationSteps(2)
    \/ BeginNew(2, "New", OffTimers)
    \/ NewSteps(2)
    \/ \E th \in Threads : Returned(th)

SpecOff == Init /\ [][NextOff]_vars

\* The steps of the call that goroutine th is in, and its return.
CallSteps(th) ==
    \/ NewSteps(th)
    \/ LogSinceSteps(th, {1})
    \/ LogDurationSteps(th)
    \/ ReportSteps(th)
    \/ ReportAllSteps(th)
    \/ TableSteps(th)
    \/ Returned(th)

\* SpecLockFair: SpecLock with a scheduler that lets every goroutine run, and
\* with mutexes that do not starve a goroutine that waits in Lock (sync.Mutex
\* hands the lock to a waiter that has waited for more than 1ms).
SpecLockFair ==
    Init /\ [][NextLock]_vars /\ \A th \in Threads : SF_vars(CallSteps(th))

-----------------------------------------------------------------------------
(* Notions the properties below use *)

NewOps == {"New", "MustNew"}

\* Goroutine th has a call of one of ops that has just returned.
AtRet(th, ops) == pc[th] = "ret" /\ arg[th].op \in ops

\* The allocated timers.
TimerIds == 1..Len(heap)

\* Timer t and its descendants.
RECURSIVE Subtree(_, _)
Subtree(h, t) ==
    {t} \cup UNION {Subtree(h, h[t].Children[k]) : k \in 1..Len(h[t].Children)}

\* The timers with parent p (NIL: the timers without parent), oldest first.
RECURSIVE CreatedUnder(_, _, _)
CreatedUnder(h, p, n) ==
    IF n = 0 THEN <<>>
    ELSE IF h[n].Parent = p THEN Append(CreatedUnder(h, p, n - 1), n)
    ELSE CreatedUnder(h, p, n - 1)

\* A LogDuration call on timer t is between its lock and its unlock.
Logging(t) ==
    \E th \in Threads :
        /\ arg[th].op \in LogOps /\ arg[th].t = t
        /\ pc[th] \in {"ld_loadT", "ld_storeT", "ld_loadC", "ld_storeC", "ld_unlock"}

-----------------------------------------------------------------------------
(* The registry *)

\* A call of New or MustNew by goroutine th has ended: it has returned, or
\* MustNew has panicked.  ret[th] holds its result.
Created(th) == pc[th] \in {"ret", "panic"} /\ arg[th].op \in NewOps

\* Two calls, made while the name was not registered and Active was set, have
\* ended with one timer and one DuplicateName error.
OneSuccessOneDuplicate(a, b) ==
    \/ ret[a].err = NoError /\ ret[a].t # NIL /\ ret[b].err = DuplicateName
    \/ ret[b].err = NoError /\ ret[b].t # NIL /\ ret[a].err = DuplicateName

\* C1: with Active set, two concurrent New calls with the same non-empty name,
\* not registered when they are made, end with exactly one success and one
\* DuplicateName error; two calls with the same name never both succeed, and
\* no two registered timers share a name.
C1_OneSuccessPerName ==
    /\ \A a, b \in Threads :
         (/\ a # b /\ Created(a) /\ Created(b)
          /\ arg[a].name = arg[b].name /\ arg[a].name # <<>>
          /\ ret[a].en /\ ret[b].en)
         => /\ ~(ret[a].err = NoError /\ ret[b].err = NoError)
            /\ arg[a].fresh /\ arg[b].fresh => OneSuccessOneDuplicate(a, b)
    /\ \A i, j \in TimerIds : heap[i].Name = heap[j].Name => i = j
    /\ DOMAIN timers = {heap[i].Name : i \in TimerIds}
    /\ \A n \in DOMAIN timers : heap[timers[n]].Name = n

\* Two New calls with the same fresh name have run concurrently and have both
\* returned: one with the timer, one with DuplicateName.
C1_Witness ==
    \E a, b \in Threads :
        /\ a # b /\ AtRet(a, {"New"}) /\ AtRet(b, {"New"})
        /\ arg[a].name = arg[b].name /\ arg[a].name # <<>>
        /\ arg[a].fresh /\ arg[b].fresh /\ ret[a].en /\ ret[b].en
        /\ ret[a].err = NoError /\ ret[a].t # NIL
        /\ ret[b].err = DuplicateName

\* C5 as claimed: a New call with the empty name returns NameRequired in
\* every state and for every parent.
C5_EmptyNameAlwaysRejected ==
    \A th \in Threads :
        AtRet(th, {"New"}) /\ arg[th].name = <<>> => ret[th].err = NameRequired

\* C5, amended: a New call with the empty name that finds Active set returns
\* NameRequired and no timer, for every parent (also the New call inside
\* MustNew); one that finds Active cleared returns nil and no error.
C5_EmptyNameRejectedWhileActive ==
    \A th \in Threads :
        /\ AtRet(th, {"New"}) /\ arg[th].name = <<>> =>
              IF ret[th].en
                THEN ret[th].err = NameRequired /\ ret[th].t = NIL
                ELSE ret[th].err = NoError /\ ret[th].t = NIL
        /\ pc[th] = "mustnew_check" /\ arg[th].name = <<>> =>
              loc[th].err = NameRequired

\* New("", parent) with an existing timer as parent has returned NameRequired.
C5_Witness ==
    \E th \in Threads :
        /\ AtRet(th, {"New"}) /\ arg[th].name = <<>> /\ arg[th].parent # NIL
        /\ ret[th].en /\ ret[th].err = NameRequired

\* C6: in a sequence of New and MustNew calls, every call with a non-empty name
\* that is not registered returns without error, and returns the new timer if
\* Active is set: the timer has the name and the parent passed; roots is
\* exactly the timers created without parent, in creation order, and each
\* timer's Children is exactly the timers created with it as parent, in
\* creation order.
C6_LinksMirrorCreation ==
    /\ Created(1) /\ arg[1].fresh /\ arg[1].name # <<>> =>
          /\ pc[1] = "ret" /\ ret[1].err = NoError
          /\ ret[1].en => ret[1].t = Len(heap)
    /\ AtRet(1, NewOps) /\ ret[1].t # NIL =>
          /\ heap[ret[1].t].Name = arg[1].name
          /\ heap[ret[1].t].Parent = arg[1].parent
    /\ roots = CreatedUnder(heap, NIL, Len(heap))
    /\ \A p \in TimerIds : heap[p].Children = CreatedUnder(heap, p, Len(heap))

\* The third timer has been created, as the second child of the first.
C6_Witness ==
    /\ AtRet(1, NewOps) /\ ret[1].t = 3 /\ arg[1].parent = 1
    /\ heap[1].Children = <<2, 3>>

-----------------------------------------------------------------------------
(* Logging *)

\* C2 as claimed: when no LogDuration call is at work on timer t, t's call
\* count is the number of LogDuration calls on t that have returned, and t's
\* total is the sum of their durations.
C2_CountsEveryCall ==
    \A t \in TimerIds :
        ~Logging(t) => /\ heap[t].CalledTimes = calls[t].n
                       /\ heap[t].TotalElapsed = calls[t].sum

\* C2, amended: when no LogDuration call is at work on timer t, t's call count
\* is the number of LogDuration calls on t that have returned and that found
\* Active set, and t's total is the sum of their durations, whatever the
\* interleaving of the calls.
C2_NoLostUpdateWhileActive ==
    \A t \in TimerIds :
        ~Logging(t) => /\ heap[t].CalledTimes = calls[t].en
                       /\ heap[t].TotalElapsed = calls[t].ensum

\* Two goroutines have logged 1ns and 2ns on the same timer in concurrent
\* calls, and both calls have returned.
C2_Witness ==
    \E t \in TimerIds :
        /\ \A th \in Threads : AtRet(th, LogOps) /\ arg[th].t = t /\ ret[th].en
        /\ {arg[th].d : th \in Threads} = {1, 2}
        /\ heap[t].CalledTimes = 2 /\ heap[t].TotalElapsed = 3

-----------------------------------------------------------------------------
(* Reports next to logging and creation *)

\* The rows a report of goroutine th has written.
Rows(th) == {k \in 1..Len(out[th]) : out[th][k].kind = "row"}

\* C3: a Report or ReportAll call that runs next to LogDuration calls reads
\* for a timer only a total and a count that the timer held between two
\* complete LogDuration calls.  Every call of SpecRace logs 1ns, so that
\* between two complete calls a timer's total in ns is its count: every row
\* shows a total that is its count.
C3_NoTornRead ==
    \A k \in Rows(1) : out[1][k].total = out[1][k].calls

\* C4: no report is about to read the Children of a timer while a New call is
\* about to append to them, unless the two hold a common lock.
C4_NoChildrenRace ==
    \A th \in Threads, w \in Threads : ~ChildrenRace(th, w)

\* The labels at which a call has not passed its check of Active.
EntryLabels ==
    {"idle", "mustnew_active", "new_active", "ld_active", "ls_active",
     "rp_active", "ra_active", "ret"}

\* Active is cleared and no call has found it set: no timer exists, every
\* call that returned a handle returned nil without error, and no report
\* has written anything.
Quiet ==
    /\ ~Active
    /\ heap = <<>> /\ roots = <<>> /\ timers = <<>>
    /\ handles \subseteq {NIL}
    /\ \A th \in Threads :
          /\ pc[th] \in EntryLabels
          /\ out[th] = <<>>
          /\ ret[th].err = NoError /\ ret[th].t = NIL

\* C7: once Active is cleared before any timer was created, and for as long
\* as it stays cleared, every New call returns a handle (nil) without error,
\* LogDuration and LogSince on that handle change no timer and do not fail,
\* and ReportAll writes nothing.
C7_DisabledFromTheStart == [][Quiet /\ ~Active' => Quiet']_vars

\* With Active cleared from the start, New has returned its handle, a
\* LogDuration call on that handle has returned and so has a ReportAll call.
C7_Witness ==
    /\ Quiet /\ handles = {NIL}
    /\ AtRet(2, LogOps) /\ ~ret[2].en
    /\ AtRet(1, {"ReportAll"}) /\ ~ret[1].en

\* The labels of the checks of Active in LogDuration, LogSince, Report and
\* ReportAll.
ActiveChecks == {"ld_active", "ls_active", "rp_active", "ra_active"}

\* C8: a LogDuration, LogSince, Report or ReportAll call that finds Active
\* cleared returns at once: it changes no timer's total or count and has
\* written nothing, whatever the timers hold.
C8_DisabledCallsAreNoOps ==
    [][\A th \in Threads :
         pc[th] \in ActiveChecks /\ pc'[th] # pc[th] /\ ~Active =>
            /\ pc'[th] = "ret" /\ ret'[th].err = NoError
            /\ heap' = heap
            /\ out'[th] = <<>>]_vars

\* With Active cleared, a Report call on a timer with activity has returned
\* without output, and a LogDuration call on a timer with one logged call has
\* returned and the timer still has one.
C8_Witness ==
    /\ ~Active
    /\ AtRet(1, {"Report"}) /\ ~ret[1].en /\ out[1] = <<>>
    /\ arg[1].t # NIL /\ hasActivity(heap, arg[1].t)
    /\ AtRet(2, LogOps) /\ ~ret[2].en
    /\ arg[2].t # NIL /\ heap[arg[2].t].CalledTimes = 1

\* C9: no LogDuration or Report call on a handle that New or MustNew returned
\* without error panics.
C9_NeverAborts ==
    \A th \in Threads :
        arg[th].op \in {"LogDuration", "Report"} /\ arg[th].t \in handles =>
            pc[th] # "panic"

-----------------------------------------------------------------------------
(* What ReportAll shows *)

\* No timer of the subtree of t has accumulated any duration.
ZeroSubtree(h, t) == \A c \in Subtree(h, t) : h[c].TotalElapsed = 0

\* The roots with accumulated duration somewhere in their subtree.
LiveRoots == {roots[k] : k \in {i \in 1..Len(roots) : ~ZeroSubtree(heap, roots[i])}}

\* The number of pieces of a kind that a report of goroutine th has written.
Pieces(th, kind) == Cardinality({k \in 1..Len(out[th]) : out[th][k].kind = kind})

\* C10: what a ReportAll call that found Active set has written, when it
\* returns: one row for each timer in the subtree of a root that has
\* accumulated duration somewhere in its subtree and no other row, and a
\* header and rulers (Table), or a header line (CSV), for each such root and
\* no other; so nothing for a root whose whole subtree has accumulated zero.
C10_OnlyActiveRoots ==
    AtRet(1, {"ReportAll"}) /\ ret[1].en =>
        LET shown == UNION {Subtree(heap, r) : r \in LiveRoots}
            n == Cardinality(LiveRoots)
        IN /\ {out[1][k].t : k \in Rows(1)} = shown
           /\ Cardinality(Rows(1)) = Cardinality(shown)
           /\ Pieces(1, "header") = IF OutputFormat = Table THEN n ELSE 0
           /\ Pieces(1, "rule") = IF OutputFormat = Table THEN 3 * n ELSE 0
           /\ Pieces(1, "csvheader") = IF OutputFormat = CSV THEN n ELSE 0

\* Timers 1 and 2 are roots, the only duration was logged on timer 3, a child
\* of timer 1, and ReportAll has written its report.
C10_Witness ==
    /\ AtRet(1, {"ReportAll"}) /\ ret[1].en
    /\ roots = <<1, 2>> /\ Len(heap) = 3 /\ heap[3].Parent = 1
    /\ heap[3].TotalElapsed = 1 /\ heap[1].TotalElapsed = 0
    /\ ZeroSubtree(heap, 2)
    /\ Len(out[1]) > 0

\* The timers at the top of the report of goroutine 1: the timer Report is
\* called on, or all roots for ReportAll.
Tops ==
    IF arg[1].op = "Report" THEN {arg[1].t} \ {NIL}
    ELSE {roots[k] : k \in 1..Len(roots)}

\* The rows that a report of goroutine th has written for timer t.
RowsOf(th, t) == {k \in Rows(th) : out[th][k].t = t}

\* C11: when a Report or ReportAll call returns, it has written exactly one
\* row for every timer in the subtree of each top timer that has accumulated
\* duration somewhere in its subtree, also for the timers of that subtree
\* whose own total and call count are zero.
C11_WholeSubtreePrinted ==
    AtRet(1, ReportOps) /\ ret[1].en =>
        \A r \in Tops :
            ~ZeroSubtree(heap, r) =>
                \A t \in Subtree(heap, r) : Cardinality(RowsOf(1, t)) = 1

\* ReportAll has written rows for root 1 and its children 2 and 3, of which
\* only timer 3 has any logged call.
C11_Witness ==
    /\ AtRet(1, {"ReportAll"})
    /\ Len(heap) = 3 /\ heap[1].Children = <<2, 3>>
    /\ heap[1].CalledTimes = 0 /\ heap[2].CalledTimes = 0
    /\ heap[3].TotalElapsed = 1
    /\ \A t \in 1..3 : \E k \in RowsOf(1, t) :
          out[1][k].total = heap[t].TotalElapsed /\ out[1][k].calls = heap[t].CalledTimes

-----------------------------------------------------------------------------
(* The average *)

\* C12: in Table, PlainText and CSV format, a row that shows a call count of
\* zero shows no average, and an average that a rendering function holds for
\* the row it is about to write was computed for a timer with a call count
\* above zero.
C12_NoAverageWithoutCalls ==
    /\ \A k \in Rows(1) : out[1][k].calls = 0 => ~out[1][k].hasAvg
    /\ pc[1] = "run" /\ loc[1].rd.hasAvg => heap[Top(1).t].CalledTimes > 0

\* ReportAll, in CSV format, has written a row with a call count of zero and
\* a row with an average.
C12_Witness ==
    /\ AtRet(1, {"ReportAll"}) /\ OutputFormat = CSV
    /\ \E k \in Rows(1) : out[1][k].calls = 0 /\ out[1][k].fmt = CSV
    /\ \E k \in Rows(1) : out[1][k].hasAvg

\* C13: every row with a call count above zero shows an average, and it is
\* the total that the row shows divided by the call count that the row shows,
\* rounded toward zero.
C13_AverageOfTheRow ==
    \A th \in Threads : \A k \in Rows(th) :
        out[th][k].calls > 0 =>
            /\ out[th][k].hasAvg
            /\ out[th][k].avg = GoDiv(out[th][k].total, out[th][k].calls)

-----------------------------------------------------------------------------
(* The order of the rows *)

IsRow(piece) == piece.kind = "row"

\* The timers of the rows that a report of goroutine th has written, in the
\* order of the rows.
RowTimers(th) ==
    LET rs == SelectSeq(out[th], IsRow) IN [k \in 1..Len(rs) |-> rs[k].t]

\* Timer t and its descendants, depth first: a timer, then the subtrees of
\* its children, oldest child first.  PreorderAll: the same for the timers of
\* the list cs from the k-th on.
RECURSIVE Preorder(_, _)
RECURSIVE PreorderAll(_, _, _)
Preorder(h, t) == <<t>> \o PreorderAll(h, h[t].Children, 1)

PreorderAll(h, cs, k) ==
    IF k > Len(cs) THEN <<>>
    ELSE Preorder(h, cs[k]) \o PreorderAll(h, cs, k + 1)

IsLive(t) == ~ZeroSubtree(heap, t)

\* The timers a report of goroutine 1 has to show, in depth-first order.
Expected ==
    IF arg[1].op = "Report"
      THEN IF arg[1].t # NIL /\ IsLive(arg[1].t)
             THEN Preorder(heap, arg[1].t) ELSE <<>>
      ELSE PreorderAll(heap, SelectSeq(roots, IsLive), 1)

\* C14: whatever OutputFormat is (Table, PlainText or CSV), the rows that a
\* Report or ReportAll call has written when it returns name the timers in the
\* same order: depth first, each timer followed by the subtrees of its
\* children in creation order.
C14_SameOrderInEveryFormat ==
    AtRet(1, ReportOps) /\ ret[1].en =>
        /\ RowTimers(1) = Expected
        /\ \A k \in Rows(1) : out[1][k].name = heap[out[1][k].t].Name

\* A report in PlainText format has written the rows of timer 1 and of its
\* children 2 and 3, in this order.
C14_Witness ==
    /\ AtRet(1, ReportOps) /\ OutputFormat = PlainText
    /\ Len(heap) = 3
    /\ heap[1].Children = <<2, 3>>
    /\ RowTimers(1) = <<1, 2, 3>>

\* The root above timer t.
RECURSIVE RootOf(_, _)
RootOf(h, t) == IF h[t].Parent = NIL THEN t ELSE RootOf(h, h[t].Parent)

\* C15: in what ReportAll writes, the rows of the subtree of a root created
\* earlier never come after a row of the subtree of a root created later
\* (timers are numbered in creation order).
C15_RootsInCreationOrder ==
    arg[1].op = "ReportAll" =>
        \A i \in Rows(1), j \in Rows(1) :
            i < j => RootOf(heap, out[1][i].t) <= RootOf(heap, out[1][j].t)

\* ReportAll has written the rows of two roots, the older root first.
C15_Witness ==
    /\ AtRet(1, {"ReportAll"})
    /\ \E i \in Rows(1), j \in Rows(1) :
          /\ i < j
          /\ RootOf(heap, out[1][i].t) < RootOf(heap, out[1][j].t)
    /\ Len(RowTimers(1)) = 3

-----------------------------------------------------------------------------
(* Headers and rulers *)

\* C16: what one ReportAll call has written in CSV format, if anything, is
\* one header line, first, and data lines after it, however many roots have
\* activity.
C16_SingleCSVHeader ==
    AtRet(1, {"ReportAll"}) /\ OutputFormat = CSV /\ out[1] # <<>> =>
        /\ out[1][1].kind = "csvheader"
        /\ \A k \in 2..Len(out[1]) : out[1][k].kind = "row"

\* What a report of goroutine th has written, each piece as its kind and its
\* timer.
Layout(th) == [k \in 1..Len(out[th]) |-> <<out[th][k].kind, out[th][k].t>>]

\* The rows of the timers of the list ts.
RowsFor(ts) == [k \in 1..Len(ts) |-> <<"row", ts[k]>>]

\* The table of the subtree of timer r.
TableOf(h, r) ==
    <<(<<"rule", NIL>>), (<<"header", NIL>>), (<<"rule", NIL>>)>>
    \o RowsFor(Preorder(h, r)) \o <<(<<"rule", NIL>>)>>

\* The tables of the timers of the list rs from the k-th on, one after the
\* other.
RECURSIVE TablesOf(_, _, _)
TablesOf(h, rs, k) ==
    IF k > Len(rs) THEN <<>> ELSE TableOf(h, rs[k]) \o TablesOf(h, rs, k + 1)

\* C17: what a ReportAll call in Table format has written when it returns is,
\* for each root with activity, in the order of the roots, a table of its own:
\* ruler, header row, ruler, one row per timer of the root's subtree, and one
\* closing ruler after the last of these rows.
C17_OneTablePerRoot ==
    AtRet(1, {"ReportAll"}) /\ ret[1].en /\ OutputFormat = Table =>
        Layout(1) = TablesOf(heap, SelectSeq(roots, IsLive), 1)

\* ReportAll has written two tables, one of them with the row of a child.
C17_Witness ==
    /\ AtRet(1, {"ReportAll"}) /\ OutputFormat = Table
    /\ Len(SelectSeq(roots, IsLive)) = 2 /\ Len(heap) = 3
    /\ Len(out[1]) = 11

-----------------------------------------------------------------------------
(* MustNew *)

\* The error New has for the arguments of the call of goroutine th that has
\* ended and that found Active set: the name is empty, or it was registered.
Refusal(th) ==
    IF ~ret[th].en THEN NoError
    ELSE IF arg[th].name = <<>> THEN NameRequired
    ELSE IF ~arg[th].fresh THEN DuplicateName
    ELSE NoError

\* C18: a New call returns the error Refusal; a MustNew call has panicked
\* exactly if Refusal is an error, with that error, and no timer was
\* registered for the call; otherwise it has returned, and if it found Active
\* set the timer it returns is the newest timer, registered under the name
\* and linked to the parent passed.
C18_MustNewPanicsOnError ==
    /\ Created(1) /\ arg[1].op = "New" =>
          pc[1] = "ret" /\ ret[1].err = Refusal(1)
    /\ Created(1) /\ arg[1].op = "MustNew" =>
          /\ pc[1] = "panic" <=> Refusal(1) # NoError
          /\ pc[1] = "panic" => ret[1].err = Refusal(1)
          /\ pc[1] = "ret" => ret[1].err = NoError
          /\ pc[1] = "ret" /\ ret[1].en =>
                /\ ret[1].t = Len(heap) /\ ret[1].t \in handles
                /\ timers[arg[1].name] = ret[1].t
                /\ heap[ret[1].t].Name = arg[1].name
                /\ heap[ret[1].t].Parent = arg[1].parent
    /\ Cardinality(DOMAIN timers) = Len(heap)

\* MustNew has panicked with DuplicateName after two timers were created.
C18_Witness ==
    /\ pc[1] = "panic" /\ arg[1].op = "MustNew"
    /\ ret[1].err = DuplicateName
    /\ Len(heap) = 2

-----------------------------------------------------------------------------
(* Report *)

\* The number of ancestors of timer t.
RECURSIVE Depth(_, _)
Depth(h, t) == IF h[t].Parent = NIL THEN 0 ELSE 1 + Depth(h, h[t].Parent)

\* C19: what t.Report has written when it returns: nothing if no timer in
\* the subtree of t has accumulated duration; otherwise first the row of t at
\* depth 0, and rows only of t and of descendants of t, each at its depth
\* below t.
C19_ReportShowsOnlySubtree ==
    AtRet(1, {"Report"}) /\ ret[1].en =>
        LET t == arg[1].t
        IN /\ ZeroSubtree(heap, t) => out[1] = <<>>
           /\ ~ZeroSubtree(heap, t) => RowTimers(1)[1] = t
           /\ \A k \in Rows(1) :
                 /\ out[1][k].t \in Subtree(heap, t)
                 /\ out[1][k].lev = Depth(heap, out[1][k].t) - Depth(heap, t)

\* Report on timer 2, the child of root 1 and parent of timer 3, has written
\* the rows of timers 2 and 3.
C19_Witness ==
    /\ AtRet(1, {"Report"}) /\ arg[1].t = 2
    /\ Len(heap) = 3 /\ heap[2].Parent = 1 /\ heap[3].Parent = 2
    /\ RowTimers(1) = <<2, 3>>

-----------------------------------------------------------------------------
(* Column widths *)

\* The widths w cover the row: its indented name, and the texts of its
\* total, of its call count and of its average if it shows one.
Covers(w, row) ==
    /\ 2 * row.lev + Len(row.name) <= w.leaderLen
    /\ Len(DurationString(row.total)) <= w.totalLen
    /\ Len(Itoa(row.calls)) <= w.callsLen
    /\ row.hasAvg => Len(DurationString(row.avg)) <= w.avgLen

\* C20: the column widths with which a Report or ReportAll call writes a row
\* in Table or PlainText format cover that row.
C20_WidthsCoverRows ==
    \A k \in Rows(1) :
        out[1][k].fmt \in {Table, PlainText} => Covers(out[1][k].w, out[1][k])

-----------------------------------------------------------------------------
(* Reports next to logging: the activity filter *)

\* C21: within one ReportAll call the roots whose rows are written are the
\* roots that the column-width pass of that call included: every row of a root
\* is the row of a root that the pass found with activity, and when the call
\* returns every root that the pass found with activity has its row.
C21_FilterConsistent ==
    arg[1].op = "ReportAll" =>
        /\ \A k \in Rows(1) : out[1][k].lev = 0 => out[1][k].t \in loc[1].seen
        /\ pc[1] = "ret" => \A r \in loc[1].seen : RowsOf(1, r) # {}

-----------------------------------------------------------------------------
(* Locks *)

\* The positions of hasActivity, of calculateLengths and of the rendering
\* functions at which the next access reads t.TotalElapsed or t.CalledTimes.
CounterReads == {"total", "calls", "ifCalls", "avgT", "avgC",
                 "totalLen", "callsLen"}

\* The next step of goroutine th, in a Report or ReportAll call, reads the
\* total or the call count of timer t: for the activity test, in the width
\* pass, for the average, or for the row.
ReadsCounters(th, t) ==
    /\ pc[th] = "run"
    /\ Top(th).t = t
    /\ Top(th).at \in CounterReads

\* C22: whenever the next step of a Report or ReportAll call reads the total
\* or the call count of a timer, the goroutine holds the lock of that timer.
C22_ReadsUnderTimerLock ==
    \A th \in Threads : \A t \in TimerIds :
        ReadsCounters(th, t) => tmu[t] = th

\* C23: whenever the global lock mu is held, its holder is in a New call (or
\* in New called by MustNew), between the lock and the unlock: no LogDuration,
\* LogSince, Report or ReportAll call holds it.
C23_OnlyNewHoldsMu ==
    mu # 0 => /\ arg[mu].op \in NewOps
              /\ pc[mu] \in {"new_lookup", "new_link", "new_unlock"}

\* C24: a LogDuration or LogSince call holds no lock but that of its timer,
\* and when it cannot take that lock, the lock is held by another call on the
\* same timer (LogDuration, LogSince or Report): never is it kept waiting by
\* a logging call on another timer, by New or by ReportAll.
C24_LoggingWaitsOnlyForItsTimer ==
    \A th \in Threads :
        arg[th].op \in LogOps =>
            /\ LocksHeld(th) \subseteq {arg[th].t} \ {NIL}
            /\ pc[th] = "ld_lock" /\ ~ENABLED LogDurationLock(th) =>
                  \E w \in Threads \ {th} :
                      /\ tmu[arg[th].t] = w
                      /\ arg[w].t = arg[th].t
                      /\ arg[w].op \in LogOps \cup {"Report"}

\* Goroutine 1 is in LogDuration on timer 1 and goroutine 2 in LogDuration on
\* timer 2, each holding the lock of its timer.
C24_Witness ==
    /\ arg[1].op = "LogDuration" /\ arg[2].op = "LogDuration"
    /\ arg[1].t = 1 /\ arg[2].t = 2
    /\ tmu = <<1, 2>>

\* No goroutine waits for a lock while it holds a lock.
NoHoldAndWait ==
    \A th \in Threads :
        pc[th] \in {"new_lock", "ld_lock", "rp_lock", "ra_lock"} =>
            LocksHeld(th) = {}

\* C25: no call waits for a lock while it holds another lock, and with a fair
\* scheduler and fair mutexes every call that a goroutine has started returns.
C25_NoDeadlock ==
    /\ []NoHoldAndWait
    /\ \A th \in Threads : (pc[th] # "idle") ~> (pc[th] = "ret")

\* ReportAll waits for mu, which New holds.
C25_Witness ==
    /\ pc[1] = "ra_lock" /\ mu = 2 /\ arg[2].op = "New"
    /\ Len(heap) = 1

-----------------------------------------------------------------------------
(* The activity filter *)

\* C26: the activity filter lets a timer pass exactly if the timer or one of
\* its descendants has a total other than zero: t.hasActivity() is true
\* exactly then, and a t.Report call that has returned has written something
\* exactly then.
C26_ActivityIsNonzeroTotal ==
    /\ \A t \in TimerIds : hasActivity(heap, t) <=> ~ZeroSubtree(heap, t)
    /\ AtRet(1, {"Report"}) => (out[1] # <<>> <=> ~ZeroSubtree(heap, arg[1].t))

-----------------------------------------------------------------------------
(* The widths of a ReportAll call *)

\* The largest element of a set of natural numbers, 0 for the empty set.
SetMax(S) == CHOOSE m \in S \cup {0} : \A x \in S : x <= m

\* The timers whose rows a ReportAll call writes: the roots that have
\* accumulated duration somewhere in their subtree, and all their descendants.
ReportedTimers == UNION {Subtree(heap, r) : r \in LiveRoots}

\* The four maxima over the timers that ReportAll reports, of all roots: the
\* indented name, the texts of the total and of the call count, and the text
\* of the average of the timers that show one.
ReportedWidths ==
    LET called == {t \in ReportedTimers : heap[t].CalledTimes > 0}
    IN [leaderLen |-> SetMax({2 * Depth(heap, t) + Len(heap[t].Name) :
                              t \in ReportedTimers}),
        totalLen  |-> SetMax({Len(DurationString(heap[t].TotalElapsed)) :
                              t \in ReportedTimers}),
        callsLen  |-> SetMax({Len(Itoa(heap[t].CalledTimes)) :
                              t \in ReportedTimers}),
        avgLen    |-> SetMax({Len(DurationString(GoDiv(heap[t].TotalElapsed,
                                                       heap[t].CalledTimes))) :
                              t \in called})]

\* C27: every row, header and ruler that one ReportAll call has written in
\* Table or PlainText format has the same four widths, whichever root it
\* belongs to: the maxima over the timers that the call reports, of all roots,
\* in Table format raised to the widths of the column labels.
C27_WidthsOverReportedTimers ==
    AtRet(1, {"ReportAll"}) /\ ret[1].en =>
        \A k \in 1..Len(out[1]) :
            out[1][k].fmt # CSV =>
                out[1][k].w = IF OutputFormat = Table
                                THEN LabelLengths(ReportedWidths)
                                ELSE ReportedWidths

-----------------------------------------------------------------------------
(* The shape of the registry *)

\* How often t occurs in the list s.
Occurrences(s, t) == Cardinality({k \in 1..Len(s) : s[k] = t})

\* The ancestors of t that at most n parent links reach.
RECURSIVE Ancestors(_, _, _)
Ancestors(h, t, n) ==
    IF n = 0 \/ h[t].Parent = NIL THEN {}
    ELSE {h[t].Parent} \cup Ancestors(h, h[t].Parent, n - 1)

\* The timers at the top of the chain of parent links from t.
RootsAbove(h, t) ==
    {a \in Ancestors(h, t, Len(h)) \cup {t} : h[a].Parent = NIL}

\* C28: the timers form a forest: a timer without a parent is in roots once
\* and in no Children; a timer with a parent is once in that parent's
\* Children, in no other Children and not in roots; the parent links from a
\* timer reach exactly one root, and no timer is its own ancestor.
C28_Forest ==
    \A t \in TimerIds :
        /\ IF heap[t].Parent = NIL
             THEN /\ Occurrences(roots, t) = 1
                  /\ \A p \in TimerIds : Occurrences(heap[p].Children, t) = 0
             ELSE /\ heap[t].Parent \in TimerIds
                  /\ Occurrences(roots, t) = 0
                  /\ \A p \in TimerIds :
                        Occurrences(heap[p].Children, t) =
                            IF p = heap[t].Parent THEN 1 ELSE 0
        /\ t \notin Ancestors(heap, t, Len(heap))
        /\ \E r \in TimerIds :
              /\ RootsAbove(heap, t) = {r}
              /\ Occurrences(roots, r) = 1

\* New has returned a timer whose parent has a parent of its own.
C28_Witness ==
    /\ AtRet(1, NewOps) /\ ret[1].t # NIL
    /\ heap[ret[1].t].Parent # NIL
    /\ heap[heap[ret[1].t].Parent].Parent # NIL

\* s is the beginning of the list t.
IsPrefix(s, t) == Len(s) <= Len(t) /\ SubSeq(t, 1, Len(s)) = s

\* C29: no step changes the name or the parent of a timer that exists, and
\* no step removes or moves an entry of timers, of roots or of a Children
\* list: each of them keeps its entries and grows at the end only.
C29_NamesAndLinksKept ==
    [][/\ Len(heap') >= Len(heap)
       /\ \A t \in TimerIds :
             /\ heap'[t].Name = heap[t].Name
             /\ heap'[t].Parent = heap[t].Parent
             /\ IsPrefix(heap[t].Children, heap'[t].Children)
       /\ IsPrefix(roots, roots')
       /\ \A n \in DOMAIN timers :
             n \in DOMAIN timers' /\ timers'[n] = timers[n]]_vars

\* A timer has got a second child, after a duration was logged and while a
\* second root exists.
C29_Witness ==
    /\ AtRet(1, {"New"}) /\ ret[1].t # NIL
    /\ heap[ret[1].t].Parent # NIL
    /\ Len(heap[heap[ret[1].t].Parent].Children) = 2
    /\ \E t \in TimerIds : heap[t].CalledTimes > 0

\* The call of New that goroutine 1 is in, or has just begun, cannot
\* succeed: its name is empty or registered already.
Doomed(a) == a.op \in NewOps /\ (a.name = <<>> \/ ~a.fresh)

\* C30: a call of New that returns an error is one with an empty or an
\* already registered name, and no step of such a call changes timers, roots
\* or any timer: the Children of the parent it was given and the total, the
\* count and the links of the timer registered under the name stay the same.
C30_FailedNewChangesNothing ==
    /\ [](AtRet(1, {"New"}) /\ ret[1].err # NoError =>
             /\ Doomed(arg[1]) /\ ret[1].t = NIL
             /\ ret[1].err = IF arg[1].name = <<>> THEN NameRequired
                                                    ELSE DuplicateName)
    /\ [][Doomed(arg'[1]) => UNCHANGED <<timers, roots, heap>>]_vars

\* New has failed for the name of a timer that has a logged duration and a
\* child, with that timer passed as the parent.
C30_Witness ==
    /\ AtRet(1, {"New"}) /\ ret[1].err = DuplicateName
    /\ arg[1].parent = timers[arg[1].name]
    /\ heap[arg[1].parent].TotalElapsed > 0
    /\ heap[arg[1].parent].Children # <<>>

-----------------------------------------------------------------------------
(* What logging changes *)

\* The positions of a goroutine inside LogSince and LogDuration.
LogLabels == {"ls_active", "ls_since", "ld_active", "ld_lock", "ld_loadT",
              "ld_storeT", "ld_loadC", "ld_storeC", "ld_unlock"}

\* The step is one that goroutine th takes inside a logging call.
LogStep(th) == pc[th] \in LogLabels /\ pc'[th] # pc[th]

\* C31: a step of LogDuration or LogSince on timer t leaves timers and roots
\* as they are, allocates no timer, leaves every other timer as it is, and
\* leaves the name, the parent and the children of t as they are.
C31_LoggingChangesOnlyItsTimer ==
    [][\A th \in Threads : LogStep(th) =>
          /\ timers' = timers
          /\ roots' = roots
          /\ Len(heap') = Len(heap)
          /\ \A u \in TimerIds :
                IF u = arg[th].t
                  THEN /\ heap'[u].Name = heap[u].Name
                       /\ heap'[u].Parent = heap[u].Parent
                       /\ heap'[u].Children = heap[u].Children
                  ELSE heap'[u] = heap[u]]_vars

\* A call has logged 1ns on a timer that has a parent and a child; the
\* parent and the child have no total.
C31_Witness ==
    /\ AtRet(1, LogOps) /\ ret[1].en /\ arg[1].d = 1
    /\ LET t == arg[1].t
       IN /\ heap[t].TotalElapsed = 1 /\ heap[t].CalledTimes = 1
          /\ heap[t].Parent # NIL /\ heap[t].Children # <<>>
          /\ heap[heap[t].Parent].TotalElapsed = 0
          /\ heap[heap[t].Children[1]].TotalElapsed = 0

\* C32: a timer is allocated with a total and a count of zero, and no step
\* lowers the total or the count of a timer.
C32_MeasurementsNeverDecrease ==
    [][/\ \A t \in 1..Len(heap') :
             t \notin TimerIds =>
                 heap'[t].TotalElapsed = 0 /\ heap'[t].CalledTimes = 0
       /\ \A t \in TimerIds :
             /\ heap'[t].TotalElapsed >= heap[t].TotalElapsed
             /\ heap'[t].CalledTimes >= heap[t].CalledTimes]_vars

-----------------------------------------------------------------------------
(* New while Active is cleared *)

\* C33: a New or MustNew call that finds Active cleared returns nil without
\* an error and changes neither timers, nor roots, nor any timer; when such a
\* call has returned, its name is registered only if it was before the call;
\* and a call that finds Active set, with a name that is not empty and was
\* not registered when the call began, returns the timer it registered
\* under that name.
C33_DisabledNewReservesNothing ==
    /\ [][pc[1] \in {"new_active", "mustnew_active"} /\ pc'[1] # pc[1]
             /\ ~Active =>
                /\ pc'[1] = "ret"
                /\ ret'[1] = [t |-> NIL, err |-> NoError, en |-> FALSE]
                /\ UNCHANGED <<timers, roots, heap>>]_vars
    /\ [](AtRet(1, NewOps) /\ ~ret[1].en =>
             (arg[1].name \in DOMAIN timers <=> ~arg[1].fresh))
    /\ [](AtRet(1, NewOps) /\ ret[1].en /\ arg[1].fresh
             /\ arg[1].name # <<>> =>
                /\ ret[1].err = NoError /\ ret[1].t \in TimerIds
                /\ arg[1].name \in DOMAIN timers
                /\ timers[arg[1].name] = ret[1].t)

\* A call of New with a name that is not registered has returned nil while
\* Active was cleared, a timer exists already, and Active is set again.
C33_Witness ==
    /\ AtRet(1, {"New"}) /\ ~ret[1].en /\ ret[1].t = NIL
    /\ arg[1].name # <<>> /\ arg[1].name \notin DOMAIN timers
    /\ arg[1].parent # NIL
    /\ Active

-----------------------------------------------------------------------------
(* The format of one report *)

\* C34: everything that one Report or ReportAll call has written is in one
\* output format, also when OutputFormat is set while the call runs.
C34_OneFormatPerCall ==
    AtRet(1, ReportOps) =>
        \A i, j \in 1..Len(out[1]) : out[1][i].fmt = out[1][j].fmt

-----------------------------------------------------------------------------
(* Totals and counts between the calls *)

\* C35: while the lock of a timer is free, a count of zero goes with a total
\* of zero: a timer with a total other than zero has a count other than
\* zero, and the row made of its fields shows an average; so does every row
\* with a total other than zero that a report has written.
C35_TotalNeedsCalls ==
    /\ \A t \in TimerIds :
          tmu[t] = 0 =>
              /\ heap[t].CalledTimes = 0 => heap[t].TotalElapsed = 0
              /\ heap[t].TotalElapsed # 0 =>
                    /\ heap[t].CalledTimes # 0
                    /\ Average(heap[t].TotalElapsed, heap[t].CalledTimes).hasAvg
    /\ AtRet(1, ReportOps) =>
          \A k \in Rows(1) : out[1][k].total # 0 => out[1][k].hasAvg

\* A report has written the row of a timer with a total and an average and
\* the row of a timer without calls, and no timer is locked.
C35_Witness ==
    /\ AtRet(1, ReportOps)
    /\ \A t \in TimerIds : tmu[t] = 0
    /\ \E k \in Rows(1) : out[1][k].total # 0 /\ out[1][k].hasAvg
    /\ \E k \in Rows(1) : out[1][k].calls = 0 /\ out[1][k].total = 0

-----------------------------------------------------------------------------
(* Activity once gained *)

\* The timers in the subtrees of the roots rs that have accumulated duration
\* somewhere in their subtree.
ShownTimers(h, rs) ==
    UNION {Subtree(h, rs[k]) : k \in {i \in 1..Len(rs) : ~ZeroSubtree(h, rs[i])}}

\* C36: with durations of 0 or more and Active set, no step takes the
\* activity of a root's subtree away or lowers the number of timers that
\* ReportAll has to show, and a ReportAll call that returns has written the
\* rows of every root with activity, as many rows as there are timers to show:
\* so a root once shown is shown by every later call, and a later call never
\* writes fewer rows.
C36_ActivityStays ==
    /\ [][/\ \A k \in 1..Len(roots) :
               ~ZeroSubtree(heap, roots[k]) => ~ZeroSubtree(heap', roots[k])
          /\ Cardinality(ShownTimers(heap', roots')) >=
                 Cardinality(ShownTimers(heap, roots))]_vars
    /\ [](AtRet(1, {"ReportAll"}) =>
             /\ LiveRoots \subseteq {out[1][k].t : k \in Rows(1)}
             /\ Cardinality(Rows(1)) = Cardinality(ShownTimers(heap, roots)))

\* ReportAll has written the row of a root on which 1ns and then 0ns were
\* logged, and the row of its child.
C36_Witness ==
    /\ AtRet(1, {"ReportAll"}) /\ Len(roots) = 1
    /\ heap[roots[1]].CalledTimes = 2 /\ heap[roots[1]].TotalElapsed = 1
    /\ heap[roots[1]].Children # <<>>
    /\ Cardinality(Rows(1)) = 2

====
